---- MODULE Spec2Model ----
(***************************************************************************)
(* GridMind Optimize: the peak-export state machine of                     *)
(* backend/automation/optimizer.py, the controller arbitration registry of *)
(* backend/services/mode_manager.py and the off-grid / optimize toggles of *)
(* backend/api/routes_settings.py.                                         *)
(*                                                                         *)
(* Python values: a string-valued slot holds the string, "None" for None   *)
(* or "Absent" for a missing key; an integer-valued slot holds <<n>> or    *)
(* << >> for None/missing; a boolean-or-None slot holds "True", "False",   *)
(* "None" or "Absent".  Times are minutes; a local time is a record        *)
(* [weekday, hour, minute, month] as datetime exposes it.                  *)
(***************************************************************************)
EXTENDS Integers, Sequences, FiniteSets, TLC

VARIABLES
    clock,              \* index into TimePoints: the wall clock
    state,              \* optimizer._state
    store,              \* setup_store._store (persisted to setup.json)
    device,             \* the Powerwall's settings behind the Tesla API
    cached_site_config, \* tesla.commands._cached_site_config
    issued,             \* history: commands attempted by the last operation
    lastOp,             \* history: the last operation that ran
    capture,            \* history: settings read at PeakHold entry of this cycle
    faults,             \* history: gateway faults injected so far
    touIn,              \* function harness: the inputs of the last application
    touOut              \* function harness: the result of the last application

vars == <<clock, state, store, device, cached_site_config,
          issued, lastOp, capture, faults, touIn, touOut>>

machineVars == <<clock, state, store, device, cached_site_config,
                 issued, lastOp, capture, faults>>

touVars == <<touIn, touOut>>

None == "None"

Absent == "Absent"

NoNum == << >>

Num(n) == <<n>>

PyBool(b) == IF b THEN "True" ELSE "False"

\* Python "not x" for x in True / False / None
PyNot(x) == x \in {"False", None}

\* Python "a or b" on string slots and on integer slots
OrStr(a, b) == IF a \in {None, Absent, ""} THEN b ELSE a

OrNum(a, b) == IF a = NoNum \/ a = Num(0) THEN b ELSE a

\* dict.get(key, default): the default only replaces a missing key.
GetOr(v, default) == IF v = Absent THEN default ELSE v

(***************************************************************************)
(* Wall clock.  The scheduler observes the clock at the instants of        *)
(* TimePoints: <<day, hour, minute>>, day 0 = Monday of week one.          *)
(***************************************************************************)
TimePoints ==
    << <<4, 16, 0>>,  <<4, 19, 0>>,  <<4, 20, 40>>,  <<4, 21, 0>>,
       <<5, 18, 0>>,  <<7, 17, 0>>,  <<7, 21, 0>> >>

MaxClock == 5

AbsMinutes(tp) == tp[1] * 1440 + tp[2] * 60 + tp[3]

LocalTime(tp, mon) ==
    [weekday |-> tp[1] % 7, hour |-> tp[2], minute |-> tp[3], month |-> mon]

\* The model's timeline lies in July.
Now == LocalTime(TimePoints[clock], 7)

NowAbs == AbsMinutes(TimePoints[clock])

(***************************************************************************)
(* Tariff schedules (site_info "tariff_content").  Python dicts iterate in *)
(* insertion order, so seasons, periods and windows are sequences.         *)
(***************************************************************************)
Window(fd, td, fh, fm, th, tm) ==
    [fromDayOfWeek |-> fd, toDayOfWeek |-> td,
     fromHour |-> fh, fromMinute |-> fm, toHour |-> th, toMinute |-> tm]

Period(name, windows) == [name |-> name, schedules |-> windows]

Season(fm, tm, periods) == [fromMonth |-> fm, toMonth |-> tm, tou_periods |-> periods]

\* Weekday evening peak from 16:00, partial peak before it, flat weekend.
TariffEvening ==
    << Season(1, 12,
        << Period("ON_PEAK", << Window(0, 4, 16, 0, 21, 0) >>),
           Period("PARTIAL_PEAK", << Window(0, 4, 12, 0, 16, 0) >>),
           Period("OFF_PEAK", << Window(5, 6, 0, 0, 0, 0) >>) >>) >>

\* Overnight peak 21:00 - 07:00 on every day, nothing else.
TariffOvernight ==
    << Season(1, 12,
        << Period("ON_PEAK", << Window(0, 6, 21, 0, 7, 0) >>) >>) >>

\* Overnight partial peak first, then an all-day peak on Sunday only.
TariffMixed ==
    << Season(1, 6,
        << Period("PARTIAL_PEAK", << Window(0, 5, 22, 30, 6, 0) >>),
           Period("ON_PEAK", << Window(6, 6, 0, 0, 0, 0), Window(0, 4, 17, 0, 20, 30) >>) >>),
       Season(7, 12,
        << Period("ON_PEAK", << Window(0, 4, 23, 0, 1, 0) >>),
           Period("OFF_PEAK", << Window(0, 6, 8, 0, 15, 0) >>) >>) >>

\* Summer-only schedule: no season covers the winter months.
TariffSummerOnly ==
    << Season(6, 9,
        << Period("ON_PEAK", << Window(0, 4, 17, 0, 21, 0) >>) >>) >>

\* The tariff programmed on the model's site.
SiteTariff == TariffEvening

\* The part of the site_info response the optimizer reads from the cache.
\* The model's site has two Powerwall 3 units and 11.5 kW nameplate power.
SiteInfo(tariff) ==
    [tariff_content |-> tariff,
     battery_count |-> 2,
     nameplate_power |-> 11500]

RECURSIVE FlattenSeq(_)
FlattenSeq(ss) ==
    IF ss = << >> THEN << >> ELSE Head(ss) \o FlattenSeq(Tail(ss))

MapSeq(s, F(_)) == [i \in 1..Len(s) |-> F(s[i])]

\* The windows the triple loop visits, in visiting order, for now.month.
PeriodEntries(p) ==
    MapSeq(p.schedules, LAMBDA w : [period_name |-> p.name, sched |-> w])

SeasonEntries(s, mon) ==
    IF s.fromMonth <= mon /\ mon <= s.toMonth
    THEN FlattenSeq(MapSeq(s.tou_periods, PeriodEntries))
    ELSE << >>

TariffEntries(tariff, mon) ==
    FlattenSeq(MapSeq(tariff, LAMBDA s : SeasonEntries(s, mon)))

DayMatches(w, now) == w.fromDayOfWeek <= now.weekday /\ now.weekday <= w.toDayOfWeek

AllDay(w) == w.fromHour = 0 /\ w.toHour = 0 /\ w.fromMinute = 0 /\ w.toMinute = 0

InRangeOvernightWrong(w, cur) ==
    LET from_minutes == w.fromHour * 60 + w.fromMinute
        to_minutes   == w.toHour * 60 + w.toMinute
    IN  IF from_minutes < to_minutes
        THEN from_minutes <= cur /\ cur < to_minutes
        ELSE cur >= from_minutes /\ cur < to_minutes

InRange(w, cur) ==
    LET from_minutes == w.fromHour * 60 + w.fromMinute
        to_minutes   == w.toHour * 60 + w.toMinute
    IN  IF from_minutes < to_minutes
        THEN from_minutes <= cur /\ cur < to_minutes
        ELSE cur >= from_minutes \/ cur < to_minutes

WindowMatches(w, now) ==
    DayMatches(w, now) /\ (AllDay(w) \/ InRange(w, now.hour * 60 + now.minute))

ManualPeakInfoNoWeekday(now, peak_start, peak_end) ==
    LET in_peak == peak_start <= now.hour /\ now.hour < peak_end
    IN  [in_peak |-> in_peak,
         peak_end_minutes |-> IF in_peak THEN Num(peak_end * 60) ELSE NoNum,
         period_name |-> IF in_peak THEN "ON_PEAK" ELSE "OFF_PEAK",
         source |-> "manual"]

\* The except branch: manual peak hours, weekdays only.
ManualPeakInfo(now, peak_start, peak_end) ==
    LET is_weekday == now.weekday < 5
        in_peak == is_weekday /\ peak_start <= now.hour /\ now.hour < peak_end
    IN  [in_peak |-> in_peak,
         peak_end_minutes |-> IF in_peak THEN Num(peak_end * 60) ELSE NoNum,
         period_name |-> IF in_peak THEN "ON_PEAK" ELSE "OFF_PEAK",
         source |-> "manual"]

TouMatchInfo(e) ==
    LET is_peak == e.period_name = "ON_PEAK"
    IN  [in_peak |-> is_peak,
         peak_end_minutes |->
             IF ~is_peak THEN NoNum
             ELSE IF AllDay(e.sched) THEN Num(24 * 60)
             ELSE Num(e.sched.toHour * 60 + e.sched.toMinute),
         period_name |-> e.period_name,
         source |-> "tou"]

NoMatchInfoAsManual(now, peak_start, peak_end) ==
    ManualPeakInfo(now, peak_start, peak_end)

\* "No matching period found -- default to off-peak"
NoMatchInfo(now, peak_start, peak_end) ==
    [in_peak |-> FALSE, peak_end_minutes |-> NoNum,
     period_name |-> "OFF_PEAK", source |-> "tou"]

\* cfg is << >> for the empty cache {} and <<site_info>> otherwise; a
\* tariff_content without seasons is << >>.
HasTariff(cfg) == cfg # << >> /\ cfg[1].tariff_content # << >>

_get_tou_peak_info(now, cfg, peak_start, peak_end) ==
    IF ~HasTariff(cfg)
    THEN ManualPeakInfo(now, peak_start, peak_end)
    ELSE LET entries == TariffEntries(cfg[1].tariff_content, now.month)
             hits == {i \in 1..Len(entries) : WindowMatches(entries[i].sched, now)}
         IN  IF hits = {}
             THEN NoMatchInfo(now, peak_start, peak_end)
             ELSE TouMatchInfo(entries[CHOOSE i \in hits : \A j \in hits : i <= j])

(***************************************************************************)
(* The Powerwall behind the Tesla API and the command gateway.  A command  *)
(* is applied ("ok") or raises TeslaAPIError ("fail").  A world is the     *)
(* part of the program state a handler threads through its calls.          *)
(***************************************************************************)
Outcomes == {"ok", "fail"}

Modes == {"autonomous", "self_consumption"}

ExportRules == {"pv_only", "battery_ok", "never"}

InitialDevices ==
    { [mode |-> "self_consumption", reserve |-> 30, export |-> "pv_only",
       grid_charging_disabled |-> TRUE] }

\* branch names the path the handler took, for the history variable lastOp.
World(st, sto, dev) ==
    [state |-> st, store |-> sto, device |-> dev, issued |-> << >>, branch |-> "none"]

Max(a, b) == IF a >= b THEN a ELSE b

Min(a, b) == IF a <= b THEN a ELSE b

Command(name, mode, reserve, disallow, rule, raised) ==
    [cmd |-> name, mode |-> mode, reserve |-> reserve, disallow |-> disallow,
     rule |-> rule, raised |-> raised]

\* tesla.commands.set_operation_mode: an invalid mode raises before the POST.
set_operation_mode(w, mode, o) ==
    LET accepted == mode \in Modes /\ o = "ok"
        raised == mode \notin Modes \/ o = "fail"
    IN  [w EXCEPT !.device.mode = IF accepted THEN mode ELSE @,
                  !.issued = Append(@, Command("set_operation_mode", mode, NoNum,
                                                None, None, raised))]

\* reserve_percent is an integer slot; the value posted is clamped to 0..100.
set_backup_reserve(w, reserve_percent, o) ==
    LET clamped == Max(0, Min(100, reserve_percent[1]))
    IN  [w EXCEPT !.device.reserve = IF o = "ok" THEN clamped ELSE @,
                  !.issued = Append(@, Command("set_backup_reserve", None, Num(clamped),
                                                None, None, o = "fail"))]

\* disallow and rule are None when the caller leaves the parameter out.
set_grid_import_export(w, disallow, rule, o) ==
    LET invalid == rule # None /\ rule \notin ExportRules
        accepted == ~invalid /\ o = "ok"
    IN  [w EXCEPT !.device.grid_charging_disabled =
                      IF accepted /\ disallow # None THEN disallow = "True" ELSE @,
                  !.device.export = IF accepted /\ rule # None THEN rule ELSE @,
                  !.issued = Append(@, Command("set_grid_import_export", None, NoNum,
                                                disallow, rule, invalid \/ o = "fail"))]

LastRaised(w) == w.issued[Len(w.issued)].raised

(***************************************************************************)
(* setup_store and optimizer._state                                        *)
(***************************************************************************)
\* setup.json of a fresh installation: no key is present.
EmptyStore ==
    [gridmind_optimize_enabled |-> FALSE,
     gridmind_optimize_phase |-> Absent,
     gridmind_optimize_phase_time |-> NoNum,
     gridmind_optimize_peak_start |-> NoNum,
     gridmind_optimize_peak_end |-> NoNum,
     gridmind_optimize_buffer |-> NoNum,
     gridmind_optimize_min_reserve |-> NoNum,
     gridmind_optimize_pre_mode |-> Absent,
     gridmind_optimize_pre_reserve |-> NoNum,
     gridmind_optimize_pre_export |-> Absent,
     gridmind_optimize_pre_grid_charging |-> Absent,
     offgrid_active |-> FALSE,
     pre_offgrid_mode |-> Absent,
     pre_offgrid_reserve |-> NoNum,
     pre_offgrid_export |-> Absent]

\* The module-level _state of a fresh process.
InitialState ==
    [enabled |-> FALSE,
     phase |-> "idle",
     peak_start_hour |-> 17,
     peak_end_hour |-> 21,
     buffer_minutes |-> 15,
     min_reserve_pct |-> 5,
     dump_started_at |-> None,
     estimated_finish |-> None,
     last_calculation |-> None,
     pre_optimize_mode |-> None,
     pre_optimize_reserve |-> NoNum,
     pre_optimize_export |-> None,
     pre_optimize_grid_charging |-> None,
     peak_end_minutes |-> NoNum,
     tou_source |-> None,
     dump_paused |-> FALSE,
     reserve_check_done |-> FALSE]

\* t is _get_local_now() in absolute minutes.
_set_phase(w, phase, t) ==
    [w EXCEPT !.state.phase = phase,
              !.store.gridmind_optimize_phase = phase,
              !.store.gridmind_optimize_phase_time = Num(t)]

ClearPersistedPre(sto) ==
    [sto EXCEPT !.gridmind_optimize_pre_mode = None,
                !.gridmind_optimize_pre_reserve = NoNum,
                !.gridmind_optimize_pre_export = None,
                !.gridmind_optimize_pre_grid_charging = None]

(***************************************************************************)
(* End-peak restoration                                                    *)
(***************************************************************************)
\* prev_mode, prev_reserve, prev_export, grid_charging_disallowed of _end_peak
RestoreValues(st, sto) ==
    LET prev_gc == IF st.pre_optimize_grid_charging = None
                   THEN GetOr(sto.gridmind_optimize_pre_grid_charging, "True")
                   ELSE st.pre_optimize_grid_charging
    IN  [mode |-> OrStr(st.pre_optimize_mode,
                        OrStr(sto.gridmind_optimize_pre_mode, "autonomous")),
         reserve |-> OrNum(st.pre_optimize_reserve,
                        OrNum(sto.gridmind_optimize_pre_reserve, Num(20))),
         export |-> OrStr(st.pre_optimize_export,
                        OrStr(sto.gridmind_optimize_pre_export, "battery_ok")),
         grid_charging_disallowed |-> PyBool(PyNot(prev_gc))]

ClearSnapshotMemoryOnly(w) ==
    [w EXCEPT !.state.pre_optimize_mode = None,
              !.state.pre_optimize_reserve = NoNum,
              !.state.pre_optimize_export = None,
              !.state.pre_optimize_grid_charging = None]

ClearSnapshot(w) ==
    [w EXCEPT !.state.pre_optimize_mode = None,
              !.state.pre_optimize_reserve = NoNum,
              !.state.pre_optimize_export = None,
              !.state.pre_optimize_grid_charging = None,
              !.store = ClearPersistedPre(@)]

\* o1, o2, o3: gateway outcomes of the three restore commands.
_end_peak(w, t, o1, o2, o3) ==
    LET prev == RestoreValues(w.state, w.store)
        w1 == set_operation_mode(w, prev.mode, o1)
        w2 == set_backup_reserve(w1, prev.reserve, o2)
        w3 == set_grid_import_export(w2, prev.grid_charging_disallowed, prev.export, o3)
        w4 == _set_phase(w3, "idle", t)
        w5 == [w4 EXCEPT !.state.dump_started_at = None,
                         !.state.estimated_finish = None,
                         !.state.dump_paused = FALSE,
                         !.branch = "end_peak"]
    IN  ClearSnapshot(w5)

(***************************************************************************)
(* PeakHold entry                                                          *)
(***************************************************************************)
\* get_site_config(): a fresh read of the device's settings.
get_site_config(dev) ==
    [operation_mode |-> dev.mode,
     backup_reserve_percent |-> dev.reserve,
     export_rule |-> dev.export,
     grid_charging_disabled |-> dev.grid_charging_disabled]

\* A captured reserve at or below min_reserve is replaced by 20.
CapturedReserve(reserve, min_reserve) ==
    IF reserve <= min_reserve THEN 20 ELSE reserve

\* oRead: outcome of get_site_config; o1, o2: outcomes of the two commands,
\* which share one try block.
_start_peak_hold(w, status, t, oRead, o1, o2) ==
    LET config == get_site_config(w.device)
        read_ok == oRead # "fail"
        pre_mode == IF read_ok THEN config.operation_mode ELSE status.operation_mode
        pre_reserve0 == IF read_ok THEN config.backup_reserve_percent
                        ELSE status.backup_reserve
        pre_export == IF read_ok THEN config.export_rule ELSE "battery_ok"
        pre_gc == IF read_ok THEN PyBool(~config.grid_charging_disabled) ELSE "True"
        pre_reserve == CapturedReserve(pre_reserve0, w.state.min_reserve_pct)
        w1 == [w EXCEPT !.state.pre_optimize_mode = pre_mode,
                        !.state.pre_optimize_reserve = Num(pre_reserve),
                        !.state.pre_optimize_export = pre_export,
                        !.state.pre_optimize_grid_charging = pre_gc,
                        !.store.gridmind_optimize_pre_mode = pre_mode,
                        !.store.gridmind_optimize_pre_reserve = Num(pre_reserve),
                        !.store.gridmind_optimize_pre_export = pre_export,
                        !.store.gridmind_optimize_pre_grid_charging = pre_gc,
                        !.branch = "start_peak_hold"]
        w2 == _set_phase(w1, "peak_hold", t)
        w3 == set_operation_mode(w2, "self_consumption", o1)
    IN  IF LastRaised(w3) THEN w3
        ELSE set_grid_import_export(w3, "True", None, o2)

(***************************************************************************)
(* Dump timing                                                             *)
(***************************************************************************)
\* _get_capacity_info: capacity in tenths of a kWh, max power in watts.
_get_capacity_info(cfg) ==
    IF cfg # << >>
    THEN [capacity_x10 |-> cfg[1].battery_count * 135,
          max_power_w |-> IF cfg[1].nameplate_power # 0 THEN cfg[1].nameplate_power
                          ELSE 11500]
    ELSE [capacity_x10 |-> 2 * 135, max_power_w |-> 11500]

\* available_pct = max(soc - min_reserve, 0)
AvailablePct(soc, min_reserve) == Max(soc - min_reserve, 0)

NotEnoughEnergyBelowOneKwh(available_pct, cap) == available_pct * cap.capacity_x10 <= 1000

\* available_kwh <= 0.5, with available_kwh = available_pct / 100 * capacity
NotEnoughEnergy(available_pct, cap) == available_pct * cap.capacity_x10 <= 500

\* minutes from now (minute of day m) to the next occurrence of peak_end_minutes
MinutesRemaining(m, pem) == IF pem <= m THEN pem + 1440 - m ELSE pem - m

DumpDueWithoutBuffer(available_pct, cap, minutes_remaining, buffer_min) ==
    available_pct * cap.capacity_x10 * 60 >= minutes_remaining * cap.max_power_w

\* minutes_needed >= trigger_at, with minutes_needed = available_kwh / max_power_kw * 60
\* and trigger_at = minutes_remaining - buffer_min (both sides scaled by max_power_w)
DumpDue(available_pct, cap, minutes_remaining, buffer_min) ==
    available_pct * cap.capacity_x10 * 60 >= (minutes_remaining - buffer_min) * cap.max_power_w

PeakEndMinutes(st) ==
    IF st.peak_end_minutes = NoNum THEN st.peak_end_hour * 60 ELSE st.peak_end_minutes[1]

\* datetime.replace(hour=h) raises ValueError unless 0 <= h <= 23
ReplaceRaises(pem) == pem \div 60 > 23 \/ pem < 0

\* dump_started_at and estimated_finish are display strings: the model keeps
\* only whether they are set ("None" or "set").
_start_dump(w, t, o1, o2, o3) ==
    LET w1 == _set_phase(w, "dumping", t)
        w2 == [w1 EXCEPT !.state.dump_started_at = "set",
                         !.state.estimated_finish = "set",
                         !.branch = "start_dump"]
        w3 == set_operation_mode(w2, "autonomous", o1)
        w4 == set_grid_import_export(w3, None, "battery_ok", o2)
    IN  set_backup_reserve(w4, Num(w.state.min_reserve_pct), o3)

_check_dump_timing(w, status, cfg, now, t, o1, o2, o3) ==
    LET cap == _get_capacity_info(cfg)
        buffer_min == w.state.buffer_minutes
        min_reserve == w.state.min_reserve_pct
        pem == PeakEndMinutes(w.state)
        available_pct == AvailablePct(status.battery_soc, min_reserve)
        minutes_remaining == MinutesRemaining(now.hour * 60 + now.minute, pem)
        due == DumpDue(available_pct, cap, minutes_remaining, buffer_min)
    IN  IF NotEnoughEnergy(available_pct, cap)
        THEN [w EXCEPT !.state.last_calculation = "skip", !.branch = "skip"]
        ELSE IF ReplaceRaises(pem)
        THEN [w EXCEPT !.branch = "error"]
        ELSE IF due
        THEN _start_dump([w EXCEPT !.state.last_calculation = "dump"], t, o1, o2, o3)
        ELSE [w EXCEPT !.state.last_calculation = "wait", !.branch = "wait"]

(***************************************************************************)
(* Dump monitoring                                                         *)
(***************************************************************************)
\* Smart load protection; o: outcome of the mode command, if one is sent.
LoadProtection(w, status, o) ==
    LET grid_importing == status.grid_power > 100
        was_paused == w.state.dump_paused
    IN  IF grid_importing /\ ~was_paused
           /\ status.battery_soc > w.state.min_reserve_pct + 5
        THEN LET w1 == set_operation_mode(w, "self_consumption", o)
             IN  IF LastRaised(w1) THEN w1 ELSE [w1 EXCEPT !.state.dump_paused = TRUE]
        ELSE IF was_paused /\ ~grid_importing
        THEN LET w1 == set_operation_mode(w, "autonomous", o)
             IN  IF LastRaised(w1) THEN w1 ELSE [w1 EXCEPT !.state.dump_paused = FALSE]
        ELSE w

ReserveTooHighAtAll(actual_reserve, min_reserve) == actual_reserve > min_reserve

\* the reported reserve is more than two points above min_reserve
ReserveTooHigh(actual_reserve, min_reserve) == actual_reserve > min_reserve + 2

_monitor_dump(w, status, cfg, now, t, o1, o2, o3) ==
    LET min_reserve == w.state.min_reserve_pct
        cap == _get_capacity_info(cfg)
        w1 == LoadProtection(w, status, o1)
        pem == PeakEndMinutes(w.state)
        available_pct == AvailablePct(status.battery_soc, min_reserve)
        w2 == [w1 EXCEPT !.state.estimated_finish =
                             IF available_pct > 0 THEN "set" ELSE @,
                         !.state.last_calculation = "dump",
                         !.branch = "monitor_dump"]
        w3 == IF ReserveTooHigh(status.backup_reserve, min_reserve)
              THEN set_backup_reserve(w2, Num(min_reserve), o2)
              ELSE w2
    IN  IF ReplaceRaises(pem)
        THEN [w1 EXCEPT !.branch = "error"]
        ELSE IF status.battery_soc <= min_reserve + 1
        THEN LET w4 == [w3 EXCEPT !.state.dump_paused = FALSE, !.branch = "complete"]
                 w5 == set_grid_import_export(w4, None, "pv_only", o3)
             IN  _set_phase(w5, "complete", t)
        ELSE w3

(***************************************************************************)
(* The evaluation tick                                                     *)
(***************************************************************************)
NoStatus == << >>

\* One-time check per process; o: outcome of set_backup_reserve(20).
_check_stuck_reserve(w, status, o) ==
    IF w.state.reserve_check_done THEN w
    ELSE LET w1 == [w EXCEPT !.state.reserve_check_done = TRUE]
         IN  IF w1.state.phase # "idle" \/ status = NoStatus THEN w1
             ELSE IF status[1].backup_reserve <= w1.state.min_reserve_pct + 1
             THEN LET w2 == set_backup_reserve(w1, Num(20), o)
                  IN  [w2 EXCEPT !.store = ClearPersistedPre(@)]
             ELSE w1

\* Phase age in minutes beyond which peak_hold/dumping is forced to end.
StuckPhaseMinutes == 360

PhaseStuck(w, t) ==
    LET pt == w.store.gridmind_optimize_phase_time
    IN  /\ w.state.phase \in {"peak_hold", "dumping"}
        /\ pt # NoNum
        /\ t - pt[1] > StuckPhaseMinutes

PeakPhases == {"peak_hold", "dumping", "complete"}

\* o: the gateway outcomes of the (up to four) calls the tick makes.
evaluate(w, status, cfg, now, t, o) ==
    IF ~w.state.enabled THEN [w EXCEPT !.branch = "disabled"]
    ELSE
    LET w1 == _check_stuck_reserve(w, status, o[1])
        tou == _get_tou_peak_info(now, cfg, w1.state.peak_start_hour,
                                  w1.state.peak_end_hour)
        w2 == [w1 EXCEPT !.state.peak_end_minutes = tou.peak_end_minutes,
                         !.state.tou_source = tou.source]
    IN  IF status = NoStatus THEN [w1 EXCEPT !.branch = "no_status"]
        ELSE IF PhaseStuck(w1, t)
        THEN [_end_peak(w1, t, o[2], o[3], o[4]) EXCEPT !.branch = "stuck_restore"]
        ELSE IF ~tou.in_peak
        THEN IF w1.state.phase \in PeakPhases
             THEN _end_peak(w1, t, o[2], o[3], o[4])
             ELSE [w1 EXCEPT !.branch = "off_peak"]
        ELSE IF w2.state.phase = "idle"
        THEN _start_peak_hold(w2, status[1], t, o[2], o[3], o[4])
        ELSE IF w2.state.phase = "peak_hold"
        THEN _check_dump_timing(w2, status[1], cfg, now, t, o[2], o[3], o[4])
        ELSE IF w2.state.phase = "dumping"
        THEN _monitor_dump(w2, status[1], cfg, now, t, o[2], o[3], o[4])
        ELSE [w2 EXCEPT !.branch = "complete_hold"]

(***************************************************************************)
(* init, enable, disable                                                   *)
(***************************************************************************)
AbsentToNone(v) == IF v = Absent THEN None ELSE v

\* The phase init() derives from the wall clock and the persisted phase.
InitPhase(in_peak, saved_phase) ==
    IF in_peak /\ saved_phase \in {"dumping", "peak_hold"} THEN saved_phase
    ELSE IF in_peak THEN "peak_hold"
    ELSE IF saved_phase \in {"peak_hold", "dumping", "complete"} THEN saved_phase
    ELSE "idle"

\* in_peak as init() computes it: manual hours on weekdays.
InitInPeak(now, peak_start, peak_end) ==
    now.weekday < 5 /\ peak_start <= now.hour /\ now.hour < peak_end

\* init() on the _state of a fresh process; writes nothing to the store.
init(sto, now) ==
    IF ~sto.gridmind_optimize_enabled THEN InitialState
    ELSE
    LET peak_start == OrNum(sto.gridmind_optimize_peak_start, Num(17))[1]
        peak_end == OrNum(sto.gridmind_optimize_peak_end, Num(21))[1]
        saved_phase == GetOr(sto.gridmind_optimize_phase, "idle")
    IN  [InitialState EXCEPT
            !.enabled = TRUE,
            !.peak_start_hour = peak_start,
            !.peak_end_hour = peak_end,
            !.buffer_minutes = OrNum(sto.gridmind_optimize_buffer, Num(15))[1],
            !.min_reserve_pct = OrNum(sto.gridmind_optimize_min_reserve, Num(5))[1],
            !.pre_optimize_mode = AbsentToNone(sto.gridmind_optimize_pre_mode),
            !.pre_optimize_reserve = sto.gridmind_optimize_pre_reserve,
            !.pre_optimize_export = AbsentToNone(sto.gridmind_optimize_pre_export),
            !.pre_optimize_grid_charging =
                GetOr(sto.gridmind_optimize_pre_grid_charging, "True"),
            !.phase = InitPhase(InitInPeak(now, peak_start, peak_end), saved_phase)]

\* enable()'s own peak test: the manual hours, on any day of the week.
EnableInPeak(now, peak_start, peak_end) ==
    peak_start <= now.hour /\ now.hour < peak_end

enable(w, now, t, peak_start, peak_end, buffer, min_reserve) ==
    LET w1 == [w EXCEPT !.state.enabled = TRUE,
                        !.state.peak_start_hour = peak_start,
                        !.state.peak_end_hour = peak_end,
                        !.state.buffer_minutes = buffer,
                        !.state.min_reserve_pct = min_reserve]
        w2 == IF EnableInPeak(now, peak_start, peak_end)
              THEN _set_phase(w1, "peak_hold", t)
              ELSE _set_phase(w1, "idle", t)
    IN  [w2 EXCEPT !.store.gridmind_optimize_enabled = TRUE,
                   !.store.gridmind_optimize_peak_start = Num(peak_start),
                   !.store.gridmind_optimize_peak_end = Num(peak_end),
                   !.store.gridmind_optimize_buffer = Num(buffer),
                   !.store.gridmind_optimize_min_reserve = Num(min_reserve),
                   !.branch = "enabled"]

disable(w, t) ==
    LET w1 == [w EXCEPT !.state.enabled = FALSE]
        w2 == _set_phase(w1, "idle", t)
    IN  [w2 EXCEPT !.state.dump_started_at = None,
                   !.state.estimated_finish = None,
                   !.store.gridmind_optimize_enabled = FALSE,
                   !.branch = "disabled"]

(***************************************************************************)
(* mode_manager                                                            *)
(***************************************************************************)
Controllers == {"manual", "automation", "ev_scheduler", "optimizer", "offgrid"}

CONTROLLER_PRIORITY ==
    [c \in Controllers |->
        CASE c = "manual" -> 0
          [] c = "automation" -> 1
          [] c = "ev_scheduler" -> 1
          [] c = "optimizer" -> 2
          [] c = "offgrid" -> 3]

get_active_controller(sto, st) ==
    IF sto.offgrid_active THEN "offgrid"
    ELSE IF sto.gridmind_optimize_enabled /\ st.phase \in {"peak_hold", "dumping"}
    THEN "optimizer"
    ELSE None

BlockedReason(active) ==
    IF active = "offgrid" THEN "Off-Grid Mode is active"
    ELSE IF active = "optimizer"
    THEN "GridMind Optimize is controlling the Powerwall during peak hours"
    ELSE "is active"

can_change_strict_priority(requesting_controller, sto, st) ==
    LET active == get_active_controller(sto, st)
    IN  IF active = None THEN [allowed |-> TRUE, reason |-> ""]
        ELSE IF CONTROLLER_PRIORITY[requesting_controller] > CONTROLLER_PRIORITY[active]
        THEN [allowed |-> TRUE, reason |-> ""]
        ELSE [allowed |-> FALSE, reason |-> BlockedReason(active)]

can_change(requesting_controller, sto, st) ==
    LET active == get_active_controller(sto, st)
    IN  IF active = None THEN [allowed |-> TRUE, reason |-> ""]
        ELSE IF requesting_controller = active THEN [allowed |-> TRUE, reason |-> ""]
        ELSE IF CONTROLLER_PRIORITY[requesting_controller] >= CONTROLLER_PRIORITY[active]
        THEN [allowed |-> TRUE, reason |-> ""]
        ELSE [allowed |-> FALSE, reason |-> BlockedReason(active)]

check_mode_conflict_offgrid_only(enabling, sto, st) ==
    IF enabling = "offgrid"
    THEN sto.gridmind_optimize_enabled /\ st.phase \in {"peak_hold", "dumping"}
    ELSE FALSE

\* has_conflict of check_mode_conflict(enabling)
check_mode_conflict(enabling, sto, st) ==
    IF enabling = "offgrid"
    THEN sto.gridmind_optimize_enabled /\ st.phase \in {"peak_hold", "dumping"}
    ELSE IF enabling = "optimizer" THEN sto.offgrid_active
    ELSE FALSE

(***************************************************************************)
(* routes_settings: the optimize and off-grid toggles                      *)
(***************************************************************************)
\* Run a command only if no earlier command of the same try block raised.
Then_set_operation_mode(w, mode, o) ==
    IF w.issued # << >> /\ LastRaised(w) THEN w ELSE set_operation_mode(w, mode, o)

Then_set_grid_import_export(w, disallow, rule, o) ==
    IF w.issued # << >> /\ LastRaised(w) THEN w
    ELSE set_grid_import_export(w, disallow, rule, o)

Then_set_backup_reserve(w, reserve, o) ==
    IF w.issued # << >> /\ LastRaised(w) THEN w ELSE set_backup_reserve(w, reserve, o)

toggle_optimize(w, now, t, enabled, peak_start, peak_end, buffer, min_reserve) ==
    IF enabled
    THEN IF check_mode_conflict("optimizer", w.store, w.state)
         THEN [w EXCEPT !.branch = "conflict"]
         ELSE enable(w, now, t, peak_start, peak_end, buffer, min_reserve)
    ELSE disable(w, t)

toggle_off_grid(w, enabled, oRead, o1, o2, o3) ==
    IF enabled
    THEN IF check_mode_conflict("offgrid", w.store, w.state)
         THEN [w EXCEPT !.branch = "conflict"]
         ELSE IF oRead = "fail" THEN [w EXCEPT !.branch = "error"]
         ELSE LET current_config == get_site_config(w.device)
                  w1 == [w EXCEPT
                           !.store.pre_offgrid_mode = current_config.operation_mode,
                           !.store.pre_offgrid_reserve =
                               Num(current_config.backup_reserve_percent),
                           !.store.pre_offgrid_export = current_config.export_rule,
                           !.store.offgrid_active = TRUE,
                           !.branch = "offgrid_on"]
                  w2 == set_operation_mode(w1, "self_consumption", o1)
                  w3 == Then_set_grid_import_export(w2, "True", "never", o2)
              IN  Then_set_backup_reserve(w3, Num(0), o3)
    ELSE LET prev_mode == OrStr(w.store.pre_offgrid_mode, "autonomous")
             prev_reserve == OrNum(w.store.pre_offgrid_reserve, Num(20))
             prev_export == OrStr(w.store.pre_offgrid_export, "battery_ok")
             w1 == set_operation_mode([w EXCEPT !.branch = "offgrid_off"], prev_mode, o1)
             w2 == Then_set_grid_import_export(w1, "False", prev_export, o2)
             w3 == Then_set_backup_reserve(w2, prev_reserve, o3)
         IN  IF Len(w3.issued) = 3 /\ ~LastRaised(w3)
             THEN [w3 EXCEPT !.store.offgrid_active = FALSE]
             ELSE [w3 EXCEPT !.branch = "error"]

(***************************************************************************)
(* collector.collect_data / tesla.commands.get_live_status                 *)
(***************************************************************************)
\* fetch_ok: the site_info request succeeded.  The site's tariff does not
\* change, so refreshing a cached config leaves it as it is.
RefreshedConfig(cfg, fetch_ok) ==
    IF cfg = << >> /\ fetch_ok THEN <<SiteInfo(SiteTariff)>> ELSE cfg

\* The collector polls every 30 seconds and every command invalidates the
\* site-config cache, so the status a tick reads carries the device's
\* current mode and reserve next to the live readings of the last poll.
get_live_status(dev, soc, grid_power) ==
    [battery_soc |-> soc,
     grid_power |-> grid_power,
     operation_mode |-> dev.mode,
     backup_reserve |-> dev.reserve]

get_latest_status(latest, dev) ==
    IF latest = << >> THEN << >>
    ELSE <<get_live_status(dev, latest[1].battery_soc, latest[1].grid_power)>>

(***************************************************************************)
(* History variables                                                       *)
(***************************************************************************)
NoCapture ==
    [mode |-> None, reserve |-> NoNum, export |-> None,
     grid_charging_disallowed |-> None]

\* The restore point _start_peak_hold has just stored, as _end_peak would use it.
SnapshotOf(st) ==
    [mode |-> st.pre_optimize_mode, reserve |-> st.pre_optimize_reserve,
     export |-> st.pre_optimize_export,
     grid_charging_disallowed |-> PyBool(PyNot(st.pre_optimize_grid_charging))]

\* The values the three restore commands were issued with.
IssuedRestore(iss) ==
    [mode |-> iss[1].mode, reserve |-> iss[2].reserve, export |-> iss[3].rule,
     grid_charging_disallowed |-> iss[3].disallow]

RestoreBranches == {"end_peak", "stuck_restore"}

NoOp == [op |-> "none", branch |-> "none"]

Commit(w, op) ==
    /\ state' = w.state
    /\ store' = w.store
    /\ device' = w.device
    /\ issued' = w.issued
    /\ lastOp' = [op |-> op, branch |-> w.branch]
    /\ capture' = IF w.branch = "start_peak_hold" THEN SnapshotOf(w.state)
                  ELSE IF w.state.phase = "idle" THEN NoCapture
                  ELSE capture

(***************************************************************************)
(* Inputs                                                                  *)
(***************************************************************************)
\* <<battery_soc, grid_power>> of a poll
LiveReadings == { <<5, 0>>, <<40, 0>>, <<85, 0>>, <<85, 500>> }

Readings ==
    { << >> } \cup
    { <<[battery_soc |-> r[1], grid_power |-> r[2]]>> : r \in LiveReadings }

\* <<peak_start, peak_end, buffer_minutes, min_reserve>> of an enable request
EnableRequests == { <<17, 21, 15, 5>> }

\* At most MaxFaults gateway calls of a run fail, one per operation at most.
MaxFaults == 1

\* The outcomes of an operation's calls when its k-th call fails (0: none).
FaultAt(k) == [i \in 1..4 |-> IF i = k THEN "fail" ELSE "ok"]

(***************************************************************************)
(* Actions                                                                 *)
(***************************************************************************)
Here == World(state, store, device)

\* Time passes between operations; the history of the last operation is
\* forgotten.
AdvanceClock ==
    /\ clock < MaxClock
    /\ clock < Len(TimePoints)
    /\ clock' = clock + 1
    /\ issued' = << >>
    /\ lastOp' = NoOp
    /\ UNCHANGED <<state, store, device, cached_site_config,
                   capture, faults, touIn, touOut>>

\* A collector poll that fetches and caches the site config.
Collect ==
    /\ cached_site_config = << >>
    /\ cached_site_config' = RefreshedConfig(cached_site_config, TRUE)
    /\ issued' = << >>
    /\ lastOp' = NoOp
    /\ UNCHANGED <<clock, state, store, device, capture, faults, touIn, touOut>>

\* One optimizer tick; latest is what the collector's last poll left in
\* collector._latest_status (nothing after a failed poll or a restart).
TickWith(latest) ==
    \E healthy \in { evaluate(Here, get_latest_status(latest, device),
                              cached_site_config, Now, NowAbs, FaultAt(0)) } :
        \/ /\ Commit(healthy, "evaluate")
           /\ UNCHANGED faults
        \/ /\ faults < MaxFaults
           /\ healthy.issued # << >>
           /\ \E k \in 1..4 :
                \E w \in { evaluate(Here, get_latest_status(latest, device),
                                     cached_site_config, Now, NowAbs,
                                     FaultAt(k)) } :
                    /\ w # healthy
                    /\ Commit(w, "evaluate")
           /\ faults' = faults + 1
    /\ UNCHANGED <<clock, cached_site_config, touIn, touOut>>

Tick == \E latest \in Readings : TickWith(latest)

Enable ==
    \E r \in EnableRequests :
        /\ \E w \in { toggle_optimize(Here, Now, NowAbs, TRUE,
                                        r[1], r[2], r[3], r[4]) } :
               Commit(w, "enable")
        /\ UNCHANGED <<clock, cached_site_config, faults, touIn, touOut>>

Disable ==
    /\ \E w \in { toggle_optimize(Here, Now, NowAbs, FALSE, 0, 0, 0, 0) } :
           Commit(w, "disable")
    /\ UNCHANGED <<clock, cached_site_config, faults, touIn, touOut>>

\* The off-grid switch of the settings page: it asks for the opposite of the
\* persisted flag; the gateway calls succeed.
ToggleOffGrid ==
    \E enabled \in { ~store.offgrid_active } :
        /\ \E w \in { toggle_off_grid(Here, enabled, "ok", "ok", "ok", "ok") } :
               Commit(w, "toggle_off_grid")
        /\ UNCHANGED <<clock, cached_site_config, faults, touIn, touOut>>

\* The process dies and starts again: module globals are re-created and
\* setup_scheduler() runs init().
Restart ==
    /\ \E w \in { [World(init(store, Now), store, device)
                       EXCEPT !.branch = "restored"] } :
           Commit(w, "init")
    /\ cached_site_config' = << >>
    /\ UNCHANGED <<clock, faults, touIn, touOut>>

(***************************************************************************)
(* The resolver on its own: every local time of a week against a set of    *)
(* cached site configs and manual peak windows.                            *)
(***************************************************************************)
TouConfigs ==
    { << >>,
      <<SiteInfo(<< >>)>>,
      <<SiteInfo(TariffEvening)>>,
      <<SiteInfo(TariffOvernight)>>,
      <<SiteInfo(TariffMixed)>>,
      <<SiteInfo(TariffSummerOnly)>> }

TouMonths == {1, 7}

TouPeakHours == { <<17, 21>>, <<6, 9>> }

Resolve(in) == _get_tou_peak_info(in.now, in.cfg, in.peak_start, in.peak_end)

TouSet(in) ==
    /\ touIn' = in
    /\ touOut' = Resolve(in)
    /\ UNCHANGED machineVars

TouAdvance ==
    LET n == touIn.now
        m == n.hour * 60 + n.minute + 10     \* a ten-minute grid
        n2 == [n EXCEPT !.weekday = IF m >= 1440 THEN (@ + 1) % 7 ELSE @,
                        !.hour = (m % 1440) \div 60,
                        !.minute = m % 60]
    IN  TouSet([touIn EXCEPT !.now = n2])

TouMonth == \E mon \in TouMonths : TouSet([touIn EXCEPT !.now.month = mon])

TouLoadConfig == \E cfg \in TouConfigs : TouSet([touIn EXCEPT !.cfg = cfg])

TouSetHours ==
    \E h \in TouPeakHours :
        TouSet([touIn EXCEPT !.peak_start = h[1], !.peak_end = h[2]])

TouIdle ==
    [now |-> [weekday |-> 0, hour |-> 0, minute |-> 0, month |-> 1],
     cfg |-> << >>, peak_start |-> 17, peak_end |-> 21]

(***************************************************************************)
(* Specifications                                                          *)
(***************************************************************************)
\* A fresh installation: nothing persisted, the optimizer off.
MachineInit ==
    /\ clock = 1
    /\ state = InitialState
    /\ store = EmptyStore
    /\ device \in InitialDevices
    /\ cached_site_config = << >>
    /\ issued = << >>
    /\ lastOp = NoOp
    /\ capture = NoCapture

ProgramInit ==
    /\ MachineInit
    /\ touIn = TouIdle
    /\ touOut = Resolve(TouIdle)

Init ==
    /\ ProgramInit
    /\ faults = 0

Next ==
    \/ AdvanceClock
    \/ Collect
    \/ Tick
    \/ Enable
    \/ Disable
    \/ Restart

Spec == Init /\ [][Next]_vars

\* The optimizer together with the off-grid toggle, on a healthy gateway.
ArbInit ==
    /\ ProgramInit
    /\ faults = MaxFaults

\* The arbitration runs cover the first ArbMaxClock time points.
ArbMaxClock == 2

ArbAdvanceClock ==
    /\ clock < ArbMaxClock
    /\ AdvanceClock

ArbNext ==
    \/ ArbAdvanceClock
    \/ Collect
    \/ Tick
    \/ Enable
    \/ Disable
    \/ ToggleOffGrid
    \/ Restart

SpecArb == ArbInit /\ [][ArbNext]_vars

TouInit == Init

TouNext ==
    \/ TouAdvance
    \/ TouMonth
    \/ TouLoadConfig
    \/ TouSetHours

SpecTou == TouInit /\ [][TouNext]_vars

(***************************************************************************)
(* The tariff resolver (SpecTou)                                           *)
(***************************************************************************)
CurrentMinutes(in) == in.now.hour * 60 + in.now.minute

\* The manual rule: Monday to Friday, peak_start <= hour < peak_end.
ManualRule(in) ==
    /\ in.now.weekday \in 0..4
    /\ in.peak_start <= in.now.hour
    /\ in.now.hour < in.peak_end

\* The minutes of the day a window covers.
Covers(w, cur) ==
    LET from == w.fromHour * 60 + w.fromMinute
        to == w.toHour * 60 + w.toMinute
    IN  \/ (from = 0 /\ to = 0)
        \/ (from < to /\ from <= cur /\ cur < to)
        \/ (from >= to /\ (cur >= from \/ cur < to))

\* A schedule is cached and none of its windows covers the local time.
NoWindowMatches(in) ==
    /\ in.cfg # << >>
    /\ in.cfg[1].tariff_content # << >>
    /\ LET seasons == in.cfg[1].tariff_content
       IN  \A i \in 1..Len(seasons) :
             \A j \in 1..Len(seasons[i].tou_periods) :
               \A k \in 1..Len(seasons[i].tou_periods[j].schedules) :
                 LET w == seasons[i].tou_periods[j].schedules[k]
                 IN  ~ /\ seasons[i].fromMonth <= in.now.month
                       /\ in.now.month <= seasons[i].toMonth
                       /\ w.fromDayOfWeek <= in.now.weekday
                       /\ in.now.weekday <= w.toDayOfWeek
                       /\ Covers(w, CurrentMinutes(in))

C3_ManualFallbackWeekdaysOnly ==
    (touIn.cfg = << >> \/ touIn.cfg[1].tariff_content = << >>) =>
        /\ touOut.source = "manual"
        /\ touOut.in_peak = ManualRule(touIn)
        /\ (touIn.now.weekday \in {5, 6} => ~touOut.in_peak)
        /\ touOut.peak_end_minutes =
               IF touOut.in_peak THEN Num(touIn.peak_end * 60) ELSE NoNum

\* Saturday 18:00 inside the manual hours with nothing cached: off-peak.
C3_Witness ==
    /\ touIn.cfg = << >>
    /\ touIn.now.weekday = 5
    /\ touIn.now.hour = 18
    /\ touIn.peak_start = 17
    /\ touIn.peak_end = 21
    /\ touOut.source = "manual"
    /\ ~touOut.in_peak

\* C4: an ON_PEAK window whose start is later than its end matches a time
\* exactly when the minutes since midnight are >= start or < end: with the
\* 21:00-07:00 window of every day, and with the 23:00-01:00 weekday window
\* that comes first in the second half of the year, in_peak is that test;
\* 23:50 is in peak and 07:10 is not.
C4_OvernightWindowWraps ==
    LET cur == CurrentMinutes(touIn)
    IN  /\ touIn.cfg = <<SiteInfo(TariffOvernight)>> =>
              /\ touOut.in_peak = (cur >= 21 * 60 \/ cur < 7 * 60)
              /\ (touOut.in_peak => touOut.peak_end_minutes = Num(7 * 60))
              /\ (touIn.now.hour = 23 /\ touIn.now.minute = 50 => touOut.in_peak)
              /\ (touIn.now.hour = 7 /\ touIn.now.minute = 10 => ~touOut.in_peak)
        /\ (/\ touIn.cfg = <<SiteInfo(TariffMixed)>>
            /\ touIn.now.month = 7
            /\ touIn.now.weekday \in 0..4) =>
              touOut.in_peak = (cur >= 23 * 60 \/ cur < 60)

\* 23:50 under the 21:00-07:00 window: in peak until 07:00.
C4_Witness ==
    /\ touIn.cfg = <<SiteInfo(TariffOvernight)>>
    /\ touIn.now.hour = 23
    /\ touIn.now.minute = 50
    /\ touOut.in_peak
    /\ touOut.source = "tou"
    /\ touOut.peak_end_minutes = Num(7 * 60)

(***************************************************************************)
(* The optimizer cycle (Spec)                                              *)
(***************************************************************************)
TouNow ==
    _get_tou_peak_info(Now, cached_site_config, state.peak_start_hour,
                       state.peak_end_hour)

SnapshotCleared ==
    /\ state.pre_optimize_mode = None
    /\ state.pre_optimize_reserve = NoNum
    /\ state.pre_optimize_export = None
    /\ state.pre_optimize_grid_charging = None
    /\ store.gridmind_optimize_pre_mode = None
    /\ store.gridmind_optimize_pre_reserve = NoNum
    /\ store.gridmind_optimize_pre_export = None
    /\ store.gridmind_optimize_pre_grid_charging = None

\* C1 as stated: once a tick has run the end-peak restoration, which leaves
\* the snapshot cleared in memory and in the store, running the restoration
\* again changes no device setting.
C1_SecondEndPeakChangesNothing ==
    (lastOp.branch \in RestoreBranches /\ SnapshotCleared) =>
        _end_peak(Here, NowAbs, "ok", "ok", "ok").device = device

\* C5 as stated: right after enable() the phase is peak_hold exactly when
\* the resolver reports in_peak at that moment, and idle otherwise.
C5_EnableFollowsResolver ==
    (lastOp.op = "enable" /\ lastOp.branch = "enabled") =>
        state.phase = IF TouNow.in_peak THEN "peak_hold" ELSE "idle"

\* The phase C6 expects of init(): in peak a persisted peak_hold or dumping
\* is resumed and a persisted idle becomes peak_hold; outside peak a
\* persisted peak_hold, dumping or complete is kept; idle in every other
\* case, in peak with a persisted complete included.
C6_ExpectedPhase(in_peak, saved_phase) ==
    IF in_peak /\ saved_phase \in {"peak_hold", "dumping"} THEN saved_phase
    ELSE IF in_peak /\ saved_phase \in {"idle", Absent} THEN "peak_hold"
    ELSE IF ~in_peak /\ saved_phase \in {"peak_hold", "dumping", "complete"}
    THEN saved_phase
    ELSE "idle"

\* C6 as stated: right after a process start with the optimizer enabled,
\* the phase in memory is the one derived from the wall clock (manual hours
\* on weekdays) and the persisted phase.
C6_InitDerivesPhase ==
    (lastOp.op = "init" /\ store.gridmind_optimize_enabled) =>
        state.phase =
            C6_ExpectedPhase(
                Now.weekday \in 0..4 /\ state.peak_start_hour <= Now.hour
                    /\ Now.hour < state.peak_end_hour,
                store.gridmind_optimize_phase)

\* A snapshot value: the one in memory, else the persisted copy.
MemoryElsePersisted(mem, persisted) == IF mem \in {None, Absent} THEN persisted ELSE mem

IsSet(v) == v \notin {None, Absent}

\* C7: a tick with telemetry that finds the optimizer enabled in peak_hold,
\* dumping or complete while the resolver reports not-in-peak issues the
\* three restore calls (mode; reserve; export rule with grid charging) with
\* the snapshot values, in memory else persisted, and leaves the phase idle
\* in memory and in the store and all four snapshot values cleared in both.
C7_EndPeakRestoresAndClears ==
    [][ (/\ lastOp'.op = "evaluate"
         /\ lastOp'.branch # "no_status"
         /\ state.enabled
         /\ state.phase \in PeakPhases
         /\ ~TouNow.in_peak)
        =>
        LET mode == MemoryElsePersisted(state.pre_optimize_mode,
                                        store.gridmind_optimize_pre_mode)
            reserve == IF state.pre_optimize_reserve # NoNum
                       THEN state.pre_optimize_reserve
                       ELSE store.gridmind_optimize_pre_reserve
            export == MemoryElsePersisted(state.pre_optimize_export,
                                          store.gridmind_optimize_pre_export)
            grid_charging ==
                MemoryElsePersisted(state.pre_optimize_grid_charging,
                                    store.gridmind_optimize_pre_grid_charging)
        IN  /\ Len(issued') = 3
            /\ issued'[1].cmd = "set_operation_mode"
            /\ (IsSet(mode) => issued'[1].mode = mode)
            /\ issued'[2].cmd = "set_backup_reserve"
            /\ (reserve # NoNum => issued'[2].reserve = reserve)
            /\ issued'[3].cmd = "set_grid_import_export"
            /\ (IsSet(export) => issued'[3].rule = export)
            /\ (IsSet(grid_charging) =>
                   issued'[3].disallow = PyBool(grid_charging = "False"))
            /\ state'.phase = "idle"
            /\ store'.gridmind_optimize_phase = "idle"
            /\ SnapshotCleared'
      ]_vars

\* An end-peak tick that put the owner's settings back: self-consumption,
\* 30 % reserve, solar-only export, grid charging disallowed.
C7_Witness ==
    /\ lastOp = [op |-> "evaluate", branch |-> "end_peak"]
    /\ Len(issued) = 3
    /\ issued[1].mode = "self_consumption"
    /\ issued[2].reserve = Num(30)
    /\ issued[3].rule = "pv_only"
    /\ issued[3].disallow = "True"
    /\ state.phase = "idle"
    /\ SnapshotCleared
    /\ device \in InitialDevices

\* C8 as stated: the values an end-peak restoration writes are the ones
\* captured at the peak_hold entry of the same cycle.
C8_RestoresThisCyclesCapture ==
    [][ lastOp'.branch \in RestoreBranches => IssuedRestore(issued') = capture ]_vars

(***************************************************************************)
(* Arbitration (SpecArb)                                                   *)
(***************************************************************************)
\* C9 as stated: off-grid is never active while the optimizer is enabled
\* with phase peak_hold or dumping.
C9_OneControllerHoldsTheDevice ==
    ~ /\ store.offgrid_active
      /\ store.gridmind_optimize_enabled
      /\ state.enabled
      /\ state.phase \in {"peak_hold", "dumping"}

\* The active controller as the registry contract states it.
ActiveController ==
    IF store.offgrid_active THEN "offgrid"
    ELSE IF store.gridmind_optimize_enabled /\ state.phase \in {"peak_hold", "dumping"}
    THEN "optimizer"
    ELSE None

Priority(c) ==
    IF c = "offgrid" THEN 3
    ELSE IF c = "optimizer" THEN 2
    ELSE IF c \in {"automation", "ev_scheduler"} THEN 1
    ELSE 0

\* C10: in every state can_change(requester) allows the request exactly when
\* no controller is active, the requester is the active one, or its priority
\* is at least the active one's, and a denial carries a reason; so with
\* off-grid active optimizer, automation and manual are denied, and offgrid
\* is granted in every state.
C10_CanChangeFollowsPriority ==
    /\ \A r \in Controllers :
         LET res == can_change(r, store, state)
         IN  /\ res.allowed =
                   \/ ActiveController = None
                   \/ r = ActiveController
                   \/ Priority(r) >= Priority(ActiveController)
             /\ (~res.allowed => res.reason # "")
    /\ store.offgrid_active =>
         \A r \in {"optimizer", "automation", "manual"} :
             ~can_change(r, store, state).allowed
    /\ can_change("offgrid", store, state).allowed

\* Off-grid was switched on while the optimizer is enabled: the optimizer's
\* request is denied, off-grid's own is granted.
C10_Witness ==
    /\ lastOp = [op |-> "toggle_off_grid", branch |-> "offgrid_on"]
    /\ store.offgrid_active
    /\ store.gridmind_optimize_enabled
    /\ ~can_change("optimizer", store, state).allowed
    /\ can_change("optimizer", store, state).reason = "Off-Grid Mode is active"
    /\ can_change("offgrid", store, state).allowed

\* C11: a request to enable off-grid while the optimizer is enabled and in
\* peak_hold or dumping is rejected with a conflict: off-grid stays inactive
\* and nothing is stored or sent; a request to enable the optimizer while
\* off-grid is active is rejected and leaves the optimizer's state, the store
\* and the device as they were.
C11_ConflictingEnableRejected ==
    [][ /\ (/\ lastOp'.op = "toggle_off_grid"
            /\ ~store.offgrid_active
            /\ store.gridmind_optimize_enabled
            /\ state.phase \in {"peak_hold", "dumping"})
           => /\ lastOp'.branch = "conflict"
              /\ ~store'.offgrid_active
              /\ store' = store
              /\ state' = state
              /\ device' = device
              /\ issued' = << >>
        /\ (lastOp'.op = "enable" /\ store.offgrid_active)
           => /\ lastOp'.branch = "conflict"
              /\ state' = state
              /\ store' = store
              /\ device' = device
      ]_vars

\* Off-grid was requested while the optimizer holds the battery in peak_hold:
\* the request ended in a conflict and off-grid is not active.
C11_Witness ==
    /\ lastOp = [op |-> "toggle_off_grid", branch |-> "conflict"]
    /\ ~store.offgrid_active
    /\ store.gridmind_optimize_enabled
    /\ state.phase = "peak_hold"

(***************************************************************************)
(* Dump timing within a peak window (Spec)                                 *)
(***************************************************************************)
\* The persisted phase was written on the day of the current tick.  The
\* peak windows of the site tariff and of the manual hours lie within one
\* day, so two in-peak instants of one day belong to one peak window.
PhaseSetToday ==
    /\ store.gridmind_optimize_phase_time # NoNum
    /\ store.gridmind_optimize_phase_time[1] \div 1440 = NowAbs \div 1440

\* C12 as stated, on the run of the program: once a tick of a peak window
\* has decided dump (the persisted phase of that day is dumping or
\* complete), no later tick of the same window records decision = wait.
C12_DumpNeverRevertsToWait ==
    [][ (/\ lastOp'.op = "evaluate"
         /\ store.gridmind_optimize_phase \in {"dumping", "complete"}
         /\ PhaseSetToday)
        => lastOp'.branch # "wait" ]_vars

(***************************************************************************)
(* The dump-timing check on its own (SpecDump): a tick that finds the      *)
(* optimizer in peak_hold, for a set of telemetry readings, sites,         *)
(* settings and times of a Friday afternoon.                               *)
(***************************************************************************)
\* A site with one Powerwall 3 unit (13.5 kWh).
SingleUnitSite ==
    [tariff_content |-> SiteTariff,
     battery_count |-> 1,
     nameplate_power |-> 11500]

DumpSites == { << >>, <<SiteInfo(SiteTariff)>>, <<SingleUnitSite>> }

DumpSocs == {0, 5, 6, 7, 9, 25, 28, 30, 40, 60, 85, 100}

DumpReserves == {5, 25}

DumpBuffers == {0, 15}

\* The state a tick finds after enable() inside the peak hours.
HoldState(in) ==
    [InitialState EXCEPT !.enabled = TRUE,
                         !.phase = "peak_hold",
                         !.buffer_minutes = in.buffer,
                         !.min_reserve_pct = in.min_reserve,
                         !.reserve_check_done = TRUE]

\* One tick in peak_hold with battery_soc = in.soc: the decision it records
\* and the phase and commands it leaves.
DumpTick(in) ==
    LET dev == CHOOSE d \in InitialDevices : TRUE
        w == evaluate(World(HoldState(in), EmptyStore, dev),
                      <<get_live_status(dev, in.soc, 0)>>,
                      in.cfg, in.now, AbsMinutes(<<4, in.now.hour, in.now.minute>>),
                      FaultAt(0))
    IN  [decision |-> w.state.last_calculation,
         phase |-> w.state.phase,
         branch |-> w.branch,
         issued |-> w.issued]

DumpSet(in) ==
    /\ touIn' = in
    /\ touOut' = DumpTick(in)
    /\ UNCHANGED machineVars

\* Ten minutes pass, up to 20:50.
DumpAdvance ==
    LET n == touIn.now
        m == n.hour * 60 + n.minute + 10
    IN  /\ m < 21 * 60
        /\ DumpSet([touIn EXCEPT !.now.hour = m \div 60, !.now.minute = m % 60])

DumpReadSoc == \E soc \in DumpSocs : DumpSet([touIn EXCEPT !.soc = soc])

DumpLoadSite == \E cfg \in DumpSites : DumpSet([touIn EXCEPT !.cfg = cfg])

DumpConfigure ==
    \E r \in DumpReserves, b \in DumpBuffers :
        DumpSet([touIn EXCEPT !.min_reserve = r, !.buffer = b])

\* Friday 16:00 in July.
DumpIdle ==
    [now |-> [weekday |-> 4, hour |-> 16, minute |-> 0, month |-> 7],
     cfg |-> << >>, soc |-> 0, min_reserve |-> 5, buffer |-> 15]

DumpInit ==
    /\ MachineInit
    /\ faults = 0
    /\ touIn = DumpIdle
    /\ touOut = DumpTick(DumpIdle)

DumpNext ==
    \/ DumpAdvance
    \/ DumpReadSoc
    \/ DumpLoadSite
    \/ DumpConfigure

SpecDump == DumpInit /\ [][DumpNext]_vars

\* The tick of the harness found the resolver in peak.
DumpInPeak ==
    _get_tou_peak_info(touIn.now, touIn.cfg, InitialState.peak_start_hour,
                       InitialState.peak_end_hour).in_peak

\* Powerwall units of the site: two when nothing is cached.
UnitsOf(cfg) == IF cfg = << >> THEN 2 ELSE cfg[1].battery_count

\* Minutes from the harness time to 21:00, the end of the peak window.
MinutesLeft(now) == 21 * 60 - (now.hour * 60 + now.minute)

\* available_kWh * 1000 for 13.5 kWh units
AvailableWh(soc, min_reserve, units) == (soc - min_reserve) * units * 135

\* C13: in peak_hold an in-peak tick starts the dump (decision dump, phase
\* dumping, three commands) exactly when available energy is above 0.5 kWh
\* and minutes_needed >= minutes_remaining - buffer_minutes, with
\* available_kWh = (soc - min_reserve) * capacity / 100 and minutes_needed =
\* available_kWh / 11.5 kW * 60; otherwise the phase stays peak_hold.  For
\* SOC 85, min reserve 5, 27 kWh, 20 minutes left and buffer 15 it dumps.
C13_DumpStartsExactlyWhenDue ==
    LET wh == AvailableWh(touIn.soc, touIn.min_reserve, UnitsOf(touIn.cfg))
        due == /\ wh > 500
               /\ wh * 60 >= (MinutesLeft(touIn.now) - touIn.buffer) * 11500
    IN  /\ DumpInPeak =>
              /\ (touOut.phase = "dumping") = due
              /\ (touOut.decision = "dump") = due
              /\ (due => Len(touOut.issued) = 3)
              /\ (~due => touOut.phase = "peak_hold" /\ touOut.issued = << >>)
        /\ (/\ touIn.soc = 85 /\ touIn.min_reserve = 5 /\ touIn.buffer = 15
            /\ UnitsOf(touIn.cfg) = 2
            /\ touIn.now.hour = 20 /\ touIn.now.minute = 40)
           => touOut.decision = "dump" /\ touOut.phase = "dumping"

\* Scenario A: SOC 85 %, reserve 5 %, two units, 20:40, buffer 15.
C13_Witness ==
    /\ touIn.soc = 85
    /\ touIn.min_reserve = 5
    /\ touIn.buffer = 15
    /\ touIn.cfg = <<SiteInfo(SiteTariff)>>
    /\ touIn.now.hour = 20
    /\ touIn.now.minute = 40
    /\ touOut.decision = "dump"
    /\ touOut.phase = "dumping"
    /\ touOut.branch = "start_dump"

\* The scenario of C14: SOC 30 %, min reserve 25 %, one 13.5 kWh unit, in peak.
ScenarioB ==
    /\ touIn.soc = 30
    /\ touIn.min_reserve = 25
    /\ touIn.cfg = <<SingleUnitSite>>
    /\ DumpInPeak

\* C14 as stated: in scenario B the check records skip and the phase stays
\* peak_hold, whatever time remains.
C14_ScenarioBSkips ==
    ScenarioB => touOut.decision = "skip" /\ touOut.phase = "peak_hold"

\* C14 amended: in scenario B the available 0.675 kWh is above the 0.5 kWh
\* floor, so the check does not skip: it records wait and stays in peak_hold
\* while the 3.52 minutes needed are less than minutes_remaining - buffer,
\* and dumps otherwise.  It skips with SOC 28 % (0.405 kWh).
C14_ScenarioBIsTimed ==
    /\ ScenarioB =>
          LET due == 3 >= MinutesLeft(touIn.now) - touIn.buffer
          IN  /\ touOut.decision # "skip"
              /\ touOut.decision = IF due THEN "dump" ELSE "wait"
              /\ touOut.phase = IF due THEN "dumping" ELSE "peak_hold"
    /\ (/\ touIn.soc = 28 /\ touIn.min_reserve = 25
        /\ touIn.cfg = <<SingleUnitSite>> /\ DumpInPeak)
       => touOut.decision = "skip" /\ touOut.phase = "peak_hold"

\* Scenario B at 19:00: the check waits.
C14_Witness ==
    /\ ScenarioB
    /\ touIn.now.hour = 19
    /\ touOut.decision = "wait"
    /\ touOut.phase = "peak_hold"

\* The decision is monotone: where the tick decides dump, it decides dump
\* for every higher SOC and every later time of the window.
DumpDecisionMonotone ==
    (DumpInPeak /\ touOut.decision = "dump") =>
        \A soc \in DumpSocs, late \in 0..5 :
            LET m == touIn.now.hour * 60 + touIn.now.minute + 10 * late
                in2 == [touIn EXCEPT !.soc = soc,
                                     !.now.hour = m \div 60, !.now.minute = m % 60]
            IN  (soc >= touIn.soc /\ m < 21 * 60) => DumpTick(in2).decision = "dump"

(***************************************************************************)
(* automation/partial_peak_arb.py: the partial-peak arbitrage calculator.  *)
(* Energies are in Wh, powers in W, SOC in tenths of a percent; a          *)
(* percentage that need not be a decimal is the fraction num / den.        *)
(***************************************************************************)
SAFETY_BUFFER_PCT == 15

MIN_DUMP_PCT == 10

MIN_HOURS_TO_PEAK == 1

NORMAL_RESERVE_PCT == 20

\* round(x, ndigits) of a non-negative x = num / den to an integer number of
\* units: to the nearest, a tie to the even neighbour.
Round(num, den) ==
    LET q == num \div den
        r == num % den
    IN  IF 2 * r < den THEN q
        ELSE IF 2 * r > den THEN q + 1
        ELSE IF q % 2 = 0 THEN q ELSE q + 1

\* hours_until_peak, with the midnight crossing
HoursUntilPeak(peak_start_hour, hour) ==
    IF peak_start_hour - hour < 0 THEN peak_start_hour - hour + 24
    ELSE peak_start_hour - hour

TooCloseToPeakStrict(hours_until_peak) == hours_until_peak < MIN_HOURS_TO_PEAK

TooCloseToPeak(hours_until_peak) == hours_until_peak <= MIN_HOURS_TO_PEAK

\* recoverable_pct as a fraction: safe_recoverable_kwh / capacity * 100
RecoverablePct(solar_wh, home_w, ev_w, hours_until_peak, capacity_wh) ==
    LET total_consumption == home_w * hours_until_peak + ev_w * hours_until_peak
        net_recoverable == Max(0, solar_wh - total_consumption)
    IN  IF capacity_wh > 0
        THEN [num |-> net_recoverable * (100 - SAFETY_BUFFER_PCT), den |-> capacity_wh]
        ELSE [num |-> 0, den |-> 1]

TargetReserveNoFloor(soc10, rec) == soc10 * rec.den - 10 * rec.num

\* target_reserve_pct before rounding, in units of 1 / (10 * rec.den) percent
TargetReserve(soc10, rec) ==
    Max(NORMAL_RESERVE_PCT * 10 * rec.den, soc10 * rec.den - 10 * rec.num)

NotFeasible == [feasible |-> FALSE]

\* The plan for a battery at soc10 / 10 percent and a recoverable percentage
\* rec: None below the minimum dump, else the rounded result dict.
ArbPlan(soc10, rec) ==
    LET unit == 10 * rec.den
        target == TargetReserve(soc10, rec)
        dump == soc10 * rec.den - target
    IN  IF dump < MIN_DUMP_PCT * unit THEN NotFeasible
        ELSE [feasible |-> TRUE,
              current_soc |-> soc10,
              target_reserve_pct |-> Round(target, unit),
              dump_pct |-> Round(dump, rec.den)]

\* in: battery_soc (tenths), battery_capacity (Wh), peak_start_hour, the hour
\* of now, and what the forecast, home-load and EV-load queries return.
calculate_arbitrage(in) ==
    LET hours_until_peak == HoursUntilPeak(in.peak_start_hour, in.hour)
    IN  IF TooCloseToPeak(hours_until_peak) THEN NotFeasible
        ELSE IF in.solar_wh <= 0 THEN NotFeasible
        ELSE ArbPlan(in.soc10,
                     RecoverablePct(in.solar_wh, in.home_w, in.ev_w,
                                    hours_until_peak, in.capacity_wh))

(***************************************************************************)
(* The calculator applied to one set of inputs at a time.                  *)
(***************************************************************************)
PlanSocs == {150, 250, 295, 300, 455, 900, 1000}

PlanCapacities == {13500, 27000}

PlanPeakStarts == {1, 17}

PlanSolar == {0, 5000, 15000, 21618, 21675, 40000}

PlanHomeLoads == {300, 1500}

PlanEvLoads == {0, 7000}

PlanSet(in) ==
    /\ touIn' = in
    /\ touOut' = calculate_arbitrage(in)
    /\ UNCHANGED <<clock, state, store, device, cached_site_config, faults,
                   issued, lastOp, capture>>

PlanAdvanceHour == PlanSet([touIn EXCEPT !.hour = (touIn.hour + 1) % 24])

PlanReadBattery ==
    \E s \in PlanSocs, c \in PlanCapacities :
        PlanSet([touIn EXCEPT !.soc10 = s, !.capacity_wh = c])

PlanReadForecast == \E wh \in PlanSolar : PlanSet([touIn EXCEPT !.solar_wh = wh])

PlanReadLoads ==
    \E h \in PlanHomeLoads, e \in PlanEvLoads :
        PlanSet([touIn EXCEPT !.home_w = h, !.ev_w = e])

PlanSetPeakStart ==
    \E p \in PlanPeakStarts : PlanSet([touIn EXCEPT !.peak_start_hour = p])

PlanIdle ==
    [soc10 |-> 900, capacity_wh |-> 27000, peak_start_hour |-> 17, hour |-> 10,
     solar_wh |-> 0, home_w |-> 1500, ev_w |-> 0]

PlanInit ==
    /\ MachineInit
    /\ faults = 0
    /\ touIn = PlanIdle
    /\ touOut = calculate_arbitrage(PlanIdle)

PlanNext ==
    \/ PlanAdvanceHour
    \/ PlanReadBattery
    \/ PlanReadForecast
    \/ PlanReadLoads
    \/ PlanSetPeakStart

SpecPlan == PlanInit /\ [][PlanNext]_vars

\* the inputs of the claims, recomputed from the last application
PlanHours == (touIn.peak_start_hour - touIn.hour + 24) % 24

PlanNetWh == Max(0, touIn.solar_wh - (touIn.home_w + touIn.ev_w) * PlanHours)

\* soc - max(20, soc - recoverable) >= 10, cleared of its denominators:
\* recoverable = PlanNetWh * 85 / capacity_wh percent, soc = soc10 / 10
PlanDumpAtLeastMin ==
    /\ touIn.soc10 >= 10 * (NORMAL_RESERVE_PCT + MIN_DUMP_PCT)
    /\ PlanNetWh * 85 >= MIN_DUMP_PCT * touIn.capacity_wh

\* C15: the calculator returns a plan exactly when more than one hour
\* remains until peak, the solar forecast until peak is positive and the
\* resulting dump is at least 10 percent of capacity; with one hour or less
\* to peak, or a forecast that is missing or zero, it returns no plan.
C15_FeasibleOnlyWhenWorthwhile ==
    /\ touOut.feasible <=> (PlanHours > 1 /\ touIn.solar_wh > 0 /\ PlanDumpAtLeastMin)
    /\ PlanHours <= 1 => ~touOut.feasible
    /\ touIn.solar_wh = 0 => ~touOut.feasible

C15_Witness ==
    /\ PlanHours = 1
    /\ touIn.solar_wh = 40000
    /\ touIn.soc10 = 900
    /\ PlanNetWh * 85 >= MIN_DUMP_PCT * touIn.capacity_wh
    /\ ~touOut.feasible

\* the safety-buffered recoverable percentage of the last application, as a
\* fraction, and max(20, soc - recoverable_pct) in units of 1 / PlanUnit percent
PlanRec == [num |-> PlanNetWh * 85, den |-> touIn.capacity_wh]

PlanUnit == 10 * touIn.capacity_wh

PlanTargetExact ==
    Max(20 * PlanUnit, touIn.soc10 * touIn.capacity_wh - 10 * PlanRec.num)

PlanDumpExact == touIn.soc10 * touIn.capacity_wh - PlanTargetExact

C16_PlanFieldsAreExact ==
    touOut.feasible =>
        /\ touOut.target_reserve_pct * PlanUnit = PlanTargetExact
        /\ touOut.dump_pct = touIn.soc10 - 10 * touOut.target_reserve_pct

\* C16: a feasible plan's target_reserve_pct is max(20, soc - recoverable_pct)
\* rounded to a whole percent and its dump_pct is soc minus that unrounded
\* target, rounded to one decimal; the target is never below 20 percent nor
\* above the current SOC; SOC 90 with recoverable 35 gives target 55, dump 35.
C16_PlanFieldsAreRounded ==
    /\ touOut.feasible =>
        /\ 2 * Max(touOut.target_reserve_pct * PlanUnit - PlanTargetExact,
                   PlanTargetExact - touOut.target_reserve_pct * PlanUnit) <= PlanUnit
        /\ 2 * Max(touOut.dump_pct * touIn.capacity_wh - PlanDumpExact,
                   PlanDumpExact - touOut.dump_pct * touIn.capacity_wh)
               <= touIn.capacity_wh
        /\ touOut.target_reserve_pct >= 20
        /\ 10 * touOut.target_reserve_pct <= touIn.soc10
    /\ ArbPlan(900, [num |-> 35, den |-> 1])
           = [feasible |-> TRUE, current_soc |-> 900,
              target_reserve_pct |-> 55, dump_pct |-> 350]

C16_Witness ==
    /\ touOut.feasible
    /\ touIn.soc10 = 900
    /\ touOut.target_reserve_pct = 55
    /\ touOut.dump_pct = 350
    /\ touOut.target_reserve_pct * PlanUnit # PlanTargetExact

(***************************************************************************)
(* A long peak window: the optimizer on one Friday with manual peak hours  *)
(* 14:00 - 21:00 and no cached tariff.  touIn.k is the position on the     *)
(* day's timeline, touOut.entered the time the phase last left             *)
(* idle/complete for peak_hold (a history variable).                       *)
(***************************************************************************)
CeilTimes ==
    << <<4, 13, 0>>, <<4, 14, 0>>, <<4, 17, 0>>, <<4, 19, 0>>,
       <<4, 20, 30>>, <<4, 21, 0>> >>

CeilRequests == { <<14, 21, 15, 5>> }

CeilNow == LocalTime(CeilTimes[touIn.k], 7)

CeilAbs == AbsMinutes(CeilTimes[touIn.k])

\* The entry time after operation op that leaves the optimizer state st:
\* enable() sets the phase anew, a tick or init() may keep the phase it found.
Entered(st, op) ==
    IF st.phase \notin {"peak_hold", "dumping"} THEN NoNum
    ELSE IF op # "enable" /\ state.phase \in {"peak_hold", "dumping"}
    THEN touOut.entered
    ELSE Num(CeilAbs)

CeilCommit(w, op) ==
    /\ Commit(w, op)
    /\ touOut' = [entered |-> Entered(w.state, op)]
    /\ UNCHANGED <<clock, cached_site_config, faults, touIn>>

\* The tick runs every two minutes: by the next instant of the timeline the last
\* operation has been a tick.
CeilAdvance ==
    /\ lastOp.op = "evaluate"
    /\ touIn.k < Len(CeilTimes)
    /\ touIn' = [k |-> touIn.k + 1]
    /\ issued' = << >>
    /\ lastOp' = NoOp
    /\ UNCHANGED <<clock, state, store, device, cached_site_config,
                   capture, faults, touOut>>

CeilTick ==
    \E latest \in Readings :
        \E w \in { evaluate(Here, get_latest_status(latest, device),
                            cached_site_config, CeilNow, CeilAbs, FaultAt(0)) } :
            CeilCommit(w, "evaluate")

CeilEnable ==
    \E r \in CeilRequests :
        \E w \in { toggle_optimize(Here, CeilNow, CeilAbs, TRUE,
                                   r[1], r[2], r[3], r[4]) } :
            CeilCommit(w, "enable")

CeilDisable ==
    \E w \in { toggle_optimize(Here, CeilNow, CeilAbs, FALSE, 0, 0, 0, 0) } :
        CeilCommit(w, "disable")

CeilRestart ==
    \E w \in { [World(init(store, CeilNow), store, device)
                   EXCEPT !.branch = "restored"] } :
        CeilCommit(w, "init")

CeilInit ==
    /\ MachineInit
    /\ faults = 0
    /\ touIn = [k |-> 1]
    /\ touOut = [entered |-> NoNum]

CeilNext ==
    \/ CeilAdvance
    \/ CeilTick
    \/ CeilEnable
    \/ CeilDisable
    \/ CeilRestart

SpecCeil == CeilInit /\ [][CeilNext]_vars

\* C17: a tick with telemetry that finds PeakHold/Dumping more than 6 hours
\* after the entry into PeakHold forces end-peak restoration and leaves the
\* phase Idle, whatever the resolver reports.
C17_CeilingFromPeakHoldEntry ==
    [][ (/\ lastOp'.op = "evaluate"
         /\ lastOp'.branch \notin {"no_status", "disabled"}
         /\ state.phase \in {"peak_hold", "dumping"}
         /\ touOut.entered # NoNum
         /\ CeilAbs - touOut.entered[1] > 360)
        => (lastOp'.branch = "stuck_restore" /\ state'.phase = "idle") ]_vars

\* What the tick does enforce: the ceiling counted from the persisted time
\* of the last phase change.
CeilingFromPhaseTime ==
    [][ (/\ lastOp'.op = "evaluate"
         /\ lastOp'.branch \notin {"no_status", "disabled"}
         /\ PhaseStuck(Here, CeilAbs))
        => (lastOp'.branch = "stuck_restore" /\ state'.phase = "idle") ]_vars

\* The phase changes of the cycle Idle, PeakHold, Dumping, Complete, Idle
PhaseCycle ==
    { <<"idle", "peak_hold">>, <<"peak_hold", "dumping">>,
      <<"dumping", "complete">> }
    \cup { <<p, "idle">> : p \in PeakPhases }

\* C18: under ticks and restarts the phase only stays, or moves Idle to
\* PeakHold to Dumping to Complete, or from one of those three to Idle; in
\* particular Complete never returns to PeakHold or Dumping within a window.
C18_PhaseMovesOnlyForward ==
    [][ lastOp'.op \in {"evaluate", "init"}
        => \/ state'.phase = state.phase
           \/ <<state.phase, state'.phase>> \in PhaseCycle ]_vars

(***************************************************************************)
(* get_state(): the keys of the status snapshot.  A key of a nested dict   *)
(* is written with its path, "verbose.settings.pre_optimize_mode".         *)
(***************************************************************************)
StateKeys ==
    {"enabled", "phase", "peak_start_hour", "peak_end_hour", "buffer_minutes",
     "min_reserve_pct", "dump_started_at", "estimated_finish",
     "last_calculation", "tou_source", "dump_paused"}

\* added only while the optimizer is enabled
LiveKeys ==
    {"current_tou_period", "tou_in_peak", "tou_has_peak_today",
     "verbose.thoughts", "verbose.current_inputs", "verbose.tou_context",
     "verbose.clean_grid", "verbose.settings.buffer_minutes",
     "verbose.settings.min_reserve_pct", "verbose.settings.pre_optimize_mode",
     "verbose.settings.pre_optimize_reserve", "verbose.last_evaluate_at"}

get_state(st) == IF st.enabled THEN StateKeys \cup LiveKeys ELSE StateKeys

\* C19: the snapshot of get_state always has enabled, phase, the peak window,
\* buffer, min_reserve, last_calculation, the decision trace, the restore
\* point and the partial_arb_enabled and partial_arb_active fields, whether
\* the optimizer is enabled or not.
C19_SnapshotHasAllFields ==
    {"enabled", "phase", "peak_start_hour", "peak_end_hour", "buffer_minutes",
     "min_reserve_pct", "last_calculation", "verbose.thoughts",
     "verbose.settings.pre_optimize_mode", "verbose.settings.pre_optimize_reserve",
     "partial_arb_enabled", "partial_arb_active"} \subseteq get_state(state)

\* C20: between operations the persisted phase equals the in-memory phase
\* (a store without a phase reads as idle), because every operation that
\* changes the in-memory phase writes the same phase to the store.
C20_PersistedPhaseIsMemoryPhase ==
    GetOr(store.gridmind_optimize_phase, "idle") = state.phase

\* The operations that go through _set_phase: ticks, enable and disable.
SetPhaseKeepsStoreInStep ==
    [][ (lastOp'.op \in {"evaluate", "enable", "disable"}
         /\ state'.phase # state.phase)
        => store'.gridmind_optimize_phase = state'.phase ]_vars

\* C21: a transition that issues several device-setting commands attempts
\* each of them even when an earlier one fails: two at PeakHold entry, three
\* at dump start and three at end-peak restoration.
C21_EveryCommandAttempted ==
    [][ /\ (lastOp'.op = "evaluate" /\ lastOp'.branch = "start_peak_hold")
            => Len(issued') = 2
        /\ (lastOp'.op = "evaluate" /\ lastOp'.branch = "start_dump")
            => Len(issued') = 3
        /\ (lastOp'.op = "evaluate" /\ lastOp'.branch \in {"end_peak", "stuck_restore"})
            => Len(issued') = 3 ]_vars

\* What does hold: dump start and end-peak restoration attempt all three.
IndependentCommandsAttempted ==
    [][ (lastOp'.op = "evaluate"
         /\ lastOp'.branch \in {"start_dump", "end_peak", "stuck_restore"})
        => Len(issued') = 3 ]_vars

(***************************************************************************)
(* Liveness: the scheduler keeps running the tick, the collector keeps     *)
(* delivering telemetry and the gateway, after its failures, accepts       *)
(* commands.                                                               *)
(***************************************************************************)
\* A tick that had telemetry and met no gateway failure.
LiveTick ==
    /\ Tick
    /\ lastOp'.branch # "no_status"
    /\ faults' = faults

\* One evening: Friday 16:00, 19:00 and 20:40 of the timeline.
LiveMaxClock == 3

LiveAdvance ==
    /\ clock < LiveMaxClock
    /\ AdvanceClock

\* The operator switches the optimizer on once.
LiveEnable ==
    /\ ~state.enabled
    /\ Enable

\* A live tick whose telemetry shows no grid import above the threshold.
CalmTick ==
    /\ \E latest \in Readings :
            /\ latest # << >>
            /\ latest[1].grid_power <= 100
            /\ TickWith(latest)
    /\ faults' = faults

LiveNext ==
    \/ LiveAdvance
    \/ Tick
    \/ LiveEnable
    \/ Restart

SpecLive ==
    Init /\ [][LiveNext]_vars /\ WF_vars(LiveTick) /\ WF_vars(CalmTick)

\* The device settings a phase requires: hold on self-consumption without
\* grid charging; dump in the exporting mode down to min_reserve.
HoldSettingsHeld ==
    device.mode = "self_consumption" /\ device.grid_charging_disabled

DumpSettingsHeld ==
    /\ device.mode = "autonomous"
    /\ device.export = "battery_ok"
    /\ device.reserve = state.min_reserve_pct

Unsettled ==
    \/ state.phase = "peak_hold" /\ ~HoldSettingsHeld
    \/ state.phase = "dumping" /\ ~state.dump_paused /\ ~DumpSettingsHeld

\* C22: when a command of a transition failed, later ticks of the same phase
\* re-issue it: a device that lacks the settings of the current phase
\* eventually holds them (or the phase ends).
C22_DriftIsCorrected == Unsettled ~> ~Unsettled

\* all four restore-point values are persisted
RestorePointSet ==
    /\ store.gridmind_optimize_pre_mode \notin {Absent, None}
    /\ store.gridmind_optimize_pre_reserve # NoNum
    /\ store.gridmind_optimize_pre_export \notin {Absent, None}
    /\ store.gridmind_optimize_pre_grid_charging \notin {Absent, None}

\* C23: every entry into PeakHold captures the device's mode, reserve, export
\* rule and grid-charging flag, so whenever the phase is PeakHold, Dumping or
\* Complete the four restore-point values are set.
C23_RestorePointSetInPeakPhases ==
    state.phase \in PeakPhases => RestorePointSet

\* The entry by a tick does capture them.
TickEntryCaptures ==
    [][ (lastOp'.op = "evaluate" /\ lastOp'.branch = "start_peak_hold")
        => RestorePointSet' ]_vars

\* C24: while Dumping the pause flag is set only by a tick whose switch to
\* self-consumption succeeded, and a paused export is resumed once grid
\* import is back below the threshold: the device returns to the exporting
\* mode with the flag cleared (or the dump ends), also in an execution where
\* the process restarts (finitely often) between the pause and the resume.
C24_PauseIsResumed ==
    /\ [][ (~state.dump_paused /\ state'.dump_paused)
           => /\ lastOp'.op = "evaluate"
              /\ state'.phase = "dumping"
              /\ device'.mode = "self_consumption"
              /\ \E i \in 1..Len(issued') :
                    /\ issued'[i].cmd = "set_operation_mode"
                    /\ issued'[i].mode = "self_consumption"
                    /\ ~issued'[i].raised ]_vars
    /\ (<>[](lastOp.op # "init"))
         => ((state.phase = "dumping" /\ state.dump_paused)
               ~> (\/ state.phase # "dumping"
                   \/ device.mode = "autonomous" /\ ~state.dump_paused))

\* Without a restart in between, the pause is resumed.
PauseIsResumedByTheSameProcess ==
    (state.phase = "dumping" /\ state.dump_paused)
      ~> (\/ state.phase # "dumping"
          \/ device.mode = "autonomous" /\ ~state.dump_paused
          \/ lastOp.op = "init")

(***************************************************************************)
(* One Dumping tick at a time: Friday 19:00 in July, manual peak hours     *)
(* 17 - 21, the telemetry of touIn and the gateway failing at call         *)
(* touIn.fail (0: no failure; 2: pause/resume, 3: the reserve re-send,     *)
(* 4: the export rule at completion).                                      *)
(***************************************************************************)
MonSocs == {5, 6, 7, 40, 85}

MonReserves == {5, 7, 8, 20, 30}

MonMinReserves == {5, 18}

MonGrid == {0, 500}

DumpingState(in) ==
    [InitialState EXCEPT !.enabled = TRUE,
                         !.phase = "dumping",
                         !.min_reserve_pct = in.min_reserve,
                         !.dump_started_at = "set",
                         !.dump_paused = in.paused,
                         !.reserve_check_done = TRUE]

MonTick(in) ==
    LET dev == [mode |-> IF in.paused THEN "self_consumption" ELSE "autonomous",
                reserve |-> in.reserve, export |-> "battery_ok",
                grid_charging_disabled |-> TRUE]
        now == [weekday |-> 4, hour |-> 19, minute |-> 0, month |-> 7]
        w == evaluate(World(DumpingState(in), EmptyStore, dev),
                      <<get_live_status(dev, in.soc, in.grid)>>,
                      << >>, now, AbsMinutes(<<4, 19, 0>>), FaultAt(in.fail))
    IN  [phase |-> w.state.phase,
         paused |-> w.state.dump_paused,
         branch |-> w.branch,
         issued |-> w.issued,
         device |-> w.device]

MonSet(in) ==
    /\ touIn' = in
    /\ touOut' = MonTick(in)
    /\ UNCHANGED machineVars

MonReadTelemetry ==
    \E soc \in MonSocs, r \in MonReserves, g \in MonGrid :
        MonSet([touIn EXCEPT !.soc = soc, !.reserve = r, !.grid = g])

MonConfigure ==
    \E m \in MonMinReserves, p \in BOOLEAN :
        MonSet([touIn EXCEPT !.min_reserve = m, !.paused = p])

MonGateway == \E k \in 0..4 : MonSet([touIn EXCEPT !.fail = k])

MonIdle ==
    [soc |-> 85, reserve |-> 5, grid |-> 0, min_reserve |-> 5,
     paused |-> FALSE, fail |-> 0]

MonInit ==
    /\ MachineInit
    /\ faults = 0
    /\ touIn = MonIdle
    /\ touOut = MonTick(MonIdle)

MonNext ==
    \/ MonReadTelemetry
    \/ MonConfigure
    \/ MonGateway

SpecMon == MonInit /\ [][MonNext]_vars

\* the tick sent set_backup_reserve(min_reserve)
MonResent ==
    \E i \in 1..Len(touOut.issued) :
        /\ touOut.issued[i].cmd = "set_backup_reserve"
        /\ touOut.issued[i].reserve = Num(touIn.min_reserve)

\* C25: a Dumping tick re-sends set-reserve(min_reserve) exactly when the
\* reported reserve exceeds min_reserve by more than 2 points, and whether or
\* not that command fails the same tick completes the dump exactly when
\* SOC <= min_reserve + 1.
C25_ReserveResentAndCompletionChecked ==
    /\ MonResent <=> (touIn.reserve > touIn.min_reserve + 2)
    /\ (touOut.phase = "complete") <=> (touIn.soc <= touIn.min_reserve + 1)
    /\ touOut.phase \in {"dumping", "complete"}

C25_Witness ==
    /\ touIn.reserve = 30
    /\ touIn.min_reserve = 5
    /\ touIn.soc = 6
    /\ touIn.fail = 3
    /\ MonResent
    /\ \E i \in 1..Len(touOut.issued) :
          touOut.issued[i].cmd = "set_backup_reserve" /\ touOut.issued[i].raised
    /\ touOut.device.reserve = 30
    /\ touOut.phase = "complete"

(***************************************************************************)
(* Interleaving.  The tick is a coroutine on the event loop that also      *)
(* serves the settings API: at an await the tick is suspended and a        *)
(* request handler may run.  touIn.pc is the handler the suspended tick is *)
(* in ("none": no tick in flight) and touIn.status the telemetry it read.  *)
(* The tick is cut at its first gateway or database await after the        *)
(* dispatch: get_site_config() in _start_peak_hold and the home-load query *)
(* in _check_dump_timing; neither handler has written _state before it.    *)
(***************************************************************************)
ConcMaxClock == 3

NoTick == [pc |-> "none", status |-> NoStatus]

\* evaluate() up to the dispatch on the phase, inside the peak window.
EvaluatePrefix(w, status, cfg, now) ==
    LET w1 == _check_stuck_reserve(w, status, "ok")
        tou == _get_tou_peak_info(now, cfg, w1.state.peak_start_hour,
                                  w1.state.peak_end_hour)
    IN  [w1 EXCEPT !.state.peak_end_minutes = tou.peak_end_minutes,
                   !.state.tou_source = tou.source,
                   !.branch = "suspended"]

\* A tick starts and reaches the await of the handler the phase selects.
ConcSuspend ==
    /\ touIn.pc = "none"
    /\ \E latest \in Readings :
         LET status == get_latest_status(latest, device)
             whole == evaluate(Here, status, cached_site_config, Now, NowAbs,
                               FaultAt(0))
         IN  /\ whole.branch \in {"start_peak_hold", "wait", "start_dump"}
             /\ Commit(EvaluatePrefix(Here, status, cached_site_config, Now),
                       "evaluate")
             /\ touIn' = [pc |-> IF whole.branch = "start_peak_hold"
                                 THEN "_start_peak_hold"
                                 ELSE "_check_dump_timing",
                          status |-> status]
    /\ UNCHANGED <<clock, cached_site_config, faults, touOut>>

\* The suspended tick runs to its end on the _state it finds.
ConcResume ==
    /\ touIn.pc # "none"
    /\ \E w \in { IF touIn.pc = "_start_peak_hold"
                  THEN _start_peak_hold(Here, touIn.status[1], NowAbs,
                                        "ok", "ok", "ok")
                  ELSE _check_dump_timing(Here, touIn.status[1],
                                          cached_site_config, Now, NowAbs,
                                          "ok", "ok", "ok") } :
           Commit(w, "evaluate")
    /\ touIn' = NoTick
    /\ UNCHANGED <<clock, cached_site_config, faults, touOut>>

\* A whole tick, with no request in between.
ConcTick ==
    /\ touIn.pc = "none"
    /\ Tick

ConcAdvance ==
    /\ touIn.pc = "none"
    /\ clock < ConcMaxClock
    /\ AdvanceClock

\* mode_manager.check_automation_allowed(): allowed
check_automation_allowed(sto, st) ==
    get_active_controller(sto, st) \notin {"offgrid", "optimizer"}

\* actions._execute_single_action for the device-setting action types
_execute_single_action(w, action, o) ==
    IF action.type = "set_mode" THEN set_operation_mode(w, action.value, o)
    ELSE IF action.type = "set_reserve"
    THEN set_backup_reserve(w, Num(action.value), o)
    ELSE set_grid_import_export(w, None, action.value, o)

\* The action lists of the rules that trigger in one rule-engine tick.
RuleActions ==
    { << >>,
      << [type |-> "set_mode", value |-> "autonomous"] >>,
      << [type |-> "set_reserve", value |-> 50] >>,
      << [type |-> "set_export_rule", value |-> "never"] >> }

\* evaluate_all_rules() up to its first await: the controller check passed
\* and telemetry is there; the tick is suspended in the rule query.
\* touOut.pc is the position of the rule-engine tick.
RuleSuspend ==
    /\ touOut.pc = "none"
    /\ check_automation_allowed(store, state)
    /\ touOut' = [pc |-> "query"]
    /\ issued' = << >>
    /\ lastOp' = [op |-> "rules", branch |-> "suspended"]
    /\ UNCHANGED <<clock, state, store, device, cached_site_config,
                   capture, faults, touIn>>

\* The rule-engine tick resumes and executes the actions of its rules.
RuleExecute ==
    /\ touOut.pc = "query"
    /\ \E acts \in RuleActions :
         \E w \in { IF acts = << >> THEN [Here EXCEPT !.branch = "no_rule"]
                    ELSE [_execute_single_action(Here, acts[1], "ok")
                              EXCEPT !.branch = "executed"] } :
             /\ state' = w.state
             /\ store' = w.store
             /\ device' = w.device
             /\ issued' = w.issued
             /\ lastOp' = [op |-> "rules", branch |-> w.branch]
    /\ touOut' = [pc |-> "none"]
    /\ UNCHANGED <<clock, cached_site_config, capture, faults, touIn>>

ConcInit ==
    /\ MachineInit
    /\ faults = 0
    /\ touIn = NoTick
    /\ touOut = NoStatus

ConcNext ==
    \/ ConcAdvance
    \/ ConcTick
    \/ ConcSuspend
    \/ ConcResume
    \/ Enable
    \/ Disable

SpecConc == ConcInit /\ [][ConcNext]_vars

\* C26: whenever the optimizer is disabled its phase is Idle, in memory and in
\* the store, also after a tick that was suspended while disable() ran has
\* resumed.
C26_DisabledIsIdle ==
    ~state.enabled =>
        /\ state.phase = "idle"
        /\ GetOr(store.gridmind_optimize_phase, "idle") = "idle"

RulesMaxClock == 2

RulesAdvance == clock < RulesMaxClock /\ AdvanceClock

\* The optimizer and the off-grid toggle run between the steps of the
\* rule-engine tick: all are coroutines of one event loop.
RulesInit ==
    /\ MachineInit
    /\ faults = 0
    /\ touIn = NoTick
    /\ touOut = [pc |-> "none"]

RulesNext ==
    \/ RulesAdvance
    \/ LiveTick
    \/ LiveEnable
    \/ ToggleOffGrid
    \/ RuleSuspend
    \/ RuleExecute

SpecRules == RulesInit /\ [][RulesNext]_vars

\* C27: the rule engine issues no device-setting action while the optimizer
\* holds the device (PeakHold or Dumping) or off-grid is active, also when the
\* optimizer entered PeakHold, or off-grid was switched on, while the
\* rule-engine tick was in progress.
C27_RulesNeverActUnderAHigherController ==
    [][ (lastOp'.op = "rules" /\ issued' # << >>)
        => get_active_controller(store, state) \notin {"offgrid", "optimizer"} ]_vars

\* C28: the stuck-phase safety net forces end-peak restoration only when the
\* optimizer has been in PeakHold/Dumping for more than 6 hours; the first tick
\* after a restart into a fresh PeakHold does not force a restore.
C28_ForcedRestoreOnlyAfterSixHoursInPhase ==
    [][ (lastOp'.op = "evaluate" /\ lastOp'.branch = "stuck_restore")
        => (/\ touOut.entered # NoNum
            /\ CeilAbs - touOut.entered[1] > StuckPhaseMinutes) ]_vars

\* A tariff whose ON_PEAK period covers the whole day, every day.
TariffAllDayPeak ==
    << Season(1, 12,
        << Period("ON_PEAK", << Window(0, 6, 0, 0, 0, 0) >>) >>) >>

HoldSites ==
    { << >>, <<SiteInfo(TariffEvening)>>, <<SiteInfo(TariffOvernight)>>,
      <<SiteInfo(TariffAllDayPeak)>> }

HoldSocs == {5, 6, 40, 85}

\* One tick in peak_hold, as DumpTick computes it, for the sites above.
HoldSet(in) ==
    /\ touIn' = in
    /\ touOut' = DumpTick(in)
    /\ UNCHANGED machineVars

\* One hour passes, up to 23:00.
HoldAdvance ==
    /\ touIn.now.hour < 23
    /\ HoldSet([touIn EXCEPT !.now.hour = @ + 1])

HoldReadSoc == \E soc \in HoldSocs : HoldSet([touIn EXCEPT !.soc = soc])

HoldLoadSite == \E cfg \in HoldSites : HoldSet([touIn EXCEPT !.cfg = cfg])

HoldInit ==
    /\ MachineInit
    /\ faults = 0
    /\ touIn = DumpIdle
    /\ touOut = DumpTick(DumpIdle)

HoldNext ==
    \/ HoldAdvance
    \/ HoldReadSoc
    \/ HoldLoadSite

SpecHold == HoldInit /\ [][HoldNext]_vars

\* What the resolver reports for the tick of the harness.
HoldTou ==
    _get_tou_peak_info(touIn.now, touIn.cfg,
                       HoldState(touIn).peak_start_hour,
                       HoldState(touIn).peak_end_hour)

\* C29: every tick in peak_hold with telemetry, inside the peak window, ends
\* with last_calculation.decision in {skip, wait, dump}, for every peak end
\* the resolver returns, minute 1440 of an all-day ON_PEAK window included;
\* the tick does not abort before it records a decision.
C29_PeakHoldTickRecordsDecision ==
    HoldTou.in_peak =>
        /\ touOut.decision \in {"skip", "wait", "dump"}
        /\ touOut.branch \in {"skip", "wait", "start_dump"}

\* With a peak end before 24:00 the tick records its decision.
DecisionRecordedForEndBeforeMidnight ==
    (HoldTou.in_peak /\ HoldTou.peak_end_minutes # Num(24 * 60)) =>
        /\ touOut.decision \in {"skip", "wait", "dump"}
        /\ touOut.branch \in {"skip", "wait", "start_dump"}

EntryMinReserves == {0, 5, 19, 20, 25, 100}

EntryReserves == {0, 5, 20, 21, 25, 30, 100}

\* The state a tick finds at the start of the peak window: enabled, idle.
EntryState(in) ==
    [InitialState EXCEPT !.enabled = TRUE,
                         !.min_reserve_pct = in.min_reserve,
                         !.reserve_check_done = in.checked]

\* One tick of an idle optimizer inside the peak window, Friday 19:00, with
\* the device's reserve at in.reserve: the restore point it persists.
EntryTick(in) ==
    LET dev == [mode |-> "autonomous", reserve |-> in.reserve,
                export |-> "battery_ok", grid_charging_disabled |-> FALSE]
        now == [weekday |-> 4, hour |-> 19, minute |-> 0, month |-> 7]
        w == evaluate(World(EntryState(in), EmptyStore, dev),
                      <<get_live_status(dev, 85, 0)>>,
                      << >>, now, AbsMinutes(<<4, 19, 0>>), FaultAt(in.fail))
    IN  [phase |-> w.state.phase,
         branch |-> w.branch,
         pre_reserve |-> w.store.gridmind_optimize_pre_reserve,
         device |-> w.device]

EntrySet(in) ==
    /\ touIn' = in
    /\ touOut' = EntryTick(in)
    /\ UNCHANGED machineVars

EntryReadDevice == \E r \in EntryReserves : EntrySet([touIn EXCEPT !.reserve = r])

EntryConfigure ==
    \E m \in EntryMinReserves, c \in BOOLEAN :
        EntrySet([touIn EXCEPT !.min_reserve = m, !.checked = c])

EntryGateway == \E k \in 0..4 : EntrySet([touIn EXCEPT !.fail = k])

EntryIdle == [reserve |-> 30, min_reserve |-> 5, checked |-> FALSE, fail |-> 0]

EntryInit ==
    /\ MachineInit
    /\ faults = 0
    /\ touIn = EntryIdle
    /\ touOut = EntryTick(EntryIdle)

EntryNext ==
    \/ EntryReadDevice
    \/ EntryConfigure
    \/ EntryGateway

SpecEntry == EntryInit /\ [][EntryNext]_vars

\* C30: the restore-point reserve persisted at PeakHold entry is strictly
\* greater than the configured min_reserve_pct, for every min_reserve_pct in
\* 0..100 and every reserve read from the device.
C30_RestorePointAboveDumpFloor ==
    touOut.branch = "start_peak_hold" =>
        /\ touOut.pre_reserve # NoNum
        /\ touOut.pre_reserve[1] > touIn.min_reserve

\* With min_reserve_pct below 20 the persisted reserve is above the floor.
RestorePointAboveFloorBelowTwenty ==
    (touOut.branch = "start_peak_hold" /\ touIn.min_reserve < 20) =>
        /\ touOut.pre_reserve # NoNum
        /\ touOut.pre_reserve[1] > touIn.min_reserve

====
